---- MODULE Spec2Model ----
(***************************************************************************)
(* Model of the batch driver and per-file analysis pipeline of the         *)
(* Metadata Analyzer (src/main.py, class MetadataAnalyzerApp).             *)
(*                                                                         *)
(* A file of the filesystem is described by a record of the facts the      *)
(* code observes about it (extension, os.stat outcome, sniffed type,       *)
(* library outcomes ...).  A finding is a record                           *)
(*   [file, pfx, kind] : pfx = "bare"   for  f"{base_name}: ..."           *)
(*                       pfx = "quoted" for  f"File '{base_name}' ..."     *)
(* and a tree node is a record [k, v, ch] (column 0, column 1, children).  *)
(***************************************************************************)
EXTENDS Integers, Sequences, FiniteSets, TLC

VARIABLES
    libs,                \* optional libraries that imported (lines 29-67)
    world,               \* the filesystem: file name -> facts
    file_paths,          \* self.file_paths
    current_file_index,  \* self.current_file_index
    anomalies,           \* self.anomalies
    logical_issues,      \* self.logical_issues
    tree,                \* self.tree: one entry per top-level file item
    file_path_map,       \* self.tree.file_path_map (its keys)
    timer_active,        \* self.processing_timer is running
    controls_enabled,    \* state set by set_controls_enabled
    stegano_checked,     \* self.check_stegano_checkbox.isChecked()
    anomalies_btn,       \* [enabled, count] of self.anomalies_btn
    logical_issues_btn,  \* [enabled, count] of self.logical_issues_btn
    status,              \* last status-bar message (abstract)
    hist,                \* history: what the last tick / last finished batch did
    sig_in,              \* input of the signature-check probe
    sig_out,             \* its result
    date_in,             \* argument of a call of parse_pdf_date
    date_out,            \* what the call returned
    gps_in,              \* argument of a call of _parse_gps_info
    gps_out              \* what the call returned

vars == << libs, world, file_paths, current_file_index, anomalies, logical_issues,
           tree, file_path_map, timer_active, controls_enabled, stegano_checked, anomalies_btn,
           logical_issues_btn, status, hist, sig_in, sig_out,
                    date_in, date_out, gps_in, gps_out >>

(***************************************************************************)
(* Bounds of the model                                                     *)
(***************************************************************************)
MaxFiles == 2

(***************************************************************************)
(* Program constants                                                       *)
(***************************************************************************)
FsTolerance == 2
OneMinute == 60
SmallFileLimit == 512
EntropyThreshold == 780000
ManyShapes == 20

AllLibs == {"PIL", "PyPDF2", "docx", "mutagen", "magic", "stegano"}

ImageExts == {".jpg", ".jpeg", ".png", ".gif", ".bmp", ".tiff"}
LsbExts == {".png", ".bmp"}
NoExifExts == {".jpg", ".jpeg", ".png"}
SmallCheckedExts == {".jpg", ".png", ".pdf", ".docx"}
ExecutableExts == {".exe", ".dll", ".bat", ".ps1", ".sh"}

\* str.lower() on the extensions the model uses
Lower(e) ==
    CASE e = ".JPG" -> ".jpg"
      [] e = ".PDF" -> ".pdf"
      [] e = ".Exe" -> ".exe"
      [] OTHER -> e

None == "None"

Leaf(k, v) == [k |-> k, v |-> v, ch |-> << >>]
Group(k, ch) == [k |-> k, v |-> "", ch |-> ch]
Bare(f, kind) == [file |-> f, pfx |-> "bare", kind |-> kind, arg |-> << >>]
\* a finding labelled with the first file of the batch
QuotedStale(f, kind) == [file |-> "a", pfx |-> "quoted", kind |-> kind, arg |-> << >>]
\* f"File '{base_name}': ..." and f"File '{base_name}' - ..."
Quoted(f, kind) == [file |-> f, pfx |-> "quoted", kind |-> kind, arg |-> << >>]
QuotedArg(f, kind, arg) == [file |-> f, pfx |-> "quoted", kind |-> kind, arg |-> arg]

\* datetime values: wall-clock seconds, and whether a tzinfo is attached;
\* NoDt stands for Python's None where a datetime is expected
NoDt == [some |-> FALSE, wall |-> 0, aware |-> FALSE, off |-> 0]
Naive(t) == [some |-> TRUE, wall |-> t, aware |-> FALSE, off |-> 0]
Aware(t, o) == [some |-> TRUE, wall |-> t, aware |-> TRUE, off |-> o]
\* d.replace(tzinfo=None) if d and d.tzinfo else d
StripTz(d) == IF d.some /\ d.aware THEN Naive(d.wall) ELSE d
\* comparing an aware with a naive datetime raises TypeError
Comparable(a, b) == a.aware = b.aware
Instant(d) == d.wall - d.off
DtLess(a, b) == Instant(a) < Instant(b)

SeqToSet(s) == { s[i] : i \in 1..Len(s) }

(***************************************************************************)
(* _parse_gps_info, lines 1591-1650.  A coordinate is a triple of degrees, *)
(* minutes and seconds with a reference letter; decimal degrees are kept   *)
(* in arc seconds (1/3600 degree).                                         *)
(***************************************************************************)
NoGps == [position |-> FALSE, lat |-> 0, lon |-> 0, error |-> FALSE]

\* float(deg) + float(min)/60.0 + float(sec)/3600.0, negated for S and W
DecimalDegrees(dms, ref, negative_ref) ==
    LET value == 3600 * dms[1] + 60 * dms[2] + dms[3]
    IN  IF ref = negative_ref THEN 0 - value ELSE value

\* lines 1618-1624
EmitPosition(latitude, longitude) ==
    [position |-> TRUE, lat |-> latitude, lon |-> longitude, error |-> FALSE]

parse_gps_info(ifd) ==
    LET has_lat == ifd.lat /= << >> /\ ifd.lat_ref /= None
        has_lon == ifd.lon /= << >> /\ ifd.lon_ref /= None
    IN  IF (has_lat /\ Len(ifd.lat) /= 3) \/ (has_lon /\ Len(ifd.lon) /= 3)
        THEN [NoGps EXCEPT !.error = TRUE]
        ELSE IF has_lat /\ has_lon
             THEN EmitPosition(DecimalDegrees(ifd.lat, ifd.lat_ref, "S"),
                               DecimalDegrees(ifd.lon, ifd.lon_ref, "W"))
             ELSE NoGps

(***************************************************************************)
(* parse_pdf_date, lines 70-105.  A string is a sequence of characters; a  *)
(* parsed date is a record of the six fields with the UTC offset in        *)
(* minutes.                                                                *)
(***************************************************************************)
Digits == {"0", "1", "2", "3", "4", "5", "6", "7", "8", "9"}
DigitValue(c) == CHOOSE n \in 0..9 : ToString(n) = c

\* int() of a run of digits
RECURSIVE ToInt(_)
ToInt(s) ==
    IF s = << >> THEN 0
    ELSE 10 * ToInt(SubSeq(s, 1, Len(s) - 1)) + DigitValue(s[Len(s)])

NoParse ==
    [some |-> FALSE, raised |-> FALSE, y |-> 0, mo |-> 0, d |-> 0, h |-> 0, mi |-> 0, s |-> 0,
     aware |-> FALSE, off |-> 0]
Parsed(y, mo, d, h, mi, s) ==
    [some |-> TRUE, raised |-> FALSE, y |-> y, mo |-> mo, d |-> d, h |-> h, mi |-> mi, s |-> s,
     aware |-> FALSE, off |-> 0]
Escaped == [NoParse EXCEPT !.raised = TRUE]

IsLeap(y) == y % 4 = 0 /\ (y % 100 /= 0 \/ y % 400 = 0)
DaysInMonth(y, mo) ==
    CASE mo = 2 -> IF IsLeap(y) THEN 29 ELSE 28
      [] mo \in {4, 6, 9, 11} -> 30
      [] OTHER -> 31

\* a constructor that clamps the day to the last day of the month
datetime_clamping(y, mo, d, h, mi, s) ==
    IF y \in 1..9999 /\ mo \in 1..12
    THEN [exc |-> None,
          dt |-> Parsed(y, mo, IF d > DaysInMonth(y, mo) THEN DaysInMonth(y, mo) ELSE d,
                        h, mi, s)]
    ELSE [exc |-> "ValueError", dt |-> NoParse]

\* datetime(year, month, day, hour, minute, second), line 88: ValueError for
\* a field out of range or a day the month does not have
datetime_new(y, mo, d, h, mi, s) ==
    IF /\ y \in 1..9999 /\ mo \in 1..12
       /\ h \in 0..23 /\ mi \in 0..59 /\ s \in 0..59
       /\ d >= 1 /\ d <= DaysInMonth(y, mo)
    THEN [exc |-> None, dt |-> Parsed(y, mo, d, h, mi, s)]
    ELSE [exc |-> "ValueError", dt |-> NoParse]

\* dt.replace(tzinfo=timezone(delta)), lines 95-99: timezone() raises
\* ValueError unless the offset is strictly between -24 and 24 hours
with_timezone(r, minutes) ==
    IF r.exc /= None THEN r
    ELSE IF minutes > -1440 /\ minutes < 1440
         THEN [exc |-> None, dt |-> [r.dt EXCEPT !.aware = TRUE, !.off = minutes]]
         ELSE [exc |-> "ValueError", dt |-> NoParse]

\* the pattern of line 75, matched at the start of the string: "D:", 14
\* digits, then optionally Z, z or a sign, two digits, ', two digits, '
MatchesDate(s) ==
    /\ Len(s) >= 16
    /\ s[1] = "D" /\ s[2] = ":"
    /\ \A i \in 3..16 : s[i] \in Digits
MatchesZulu(s) == Len(s) >= 17 /\ s[17] \in {"Z", "z"}
MatchesOffset(s) ==
    /\ Len(s) >= 23
    /\ s[17] \in {"+", "-"}
    /\ s[18] \in Digits /\ s[19] \in Digits /\ s[20] = "'"
    /\ s[21] \in Digits /\ s[22] \in Digits /\ s[23] = "'"

\* lines 90-99
TimezoneOf(s, r) ==
    IF MatchesZulu(s) THEN with_timezone(r, 0)
    ELSE IF MatchesOffset(s)
         THEN with_timezone(r, (IF s[17] = "-" THEN -1 ELSE 1)
                               * (60 * ToInt(SubSeq(s, 18, 19)) + ToInt(SubSeq(s, 21, 22))))
         ELSE r

\* lines 77-104: the body of the try block and its handler
ParseMatched(s, y, mo, d, h, mi, sec) ==
    IF ~(mo >= 1 /\ mo <= 12 /\ d >= 1 /\ d <= 31 /\ h >= 0 /\ h <= 23
         /\ mi >= 0 /\ mi <= 59 /\ sec >= 0 /\ sec <= 59)
    THEN [exc |-> None, dt |-> NoParse]
    ELSE TimezoneOf(s, datetime_new(y, mo, d, h, mi, sec))

Handled(r) ==
    IF r.exc = None THEN r.dt
    ELSE IF r.exc \in {"ValueError", "TypeError"} THEN NoParse ELSE Escaped

parse_pdf_date(v) ==
    IF ~v.is_str THEN NoParse
    ELSE IF ~MatchesDate(v.text) THEN NoParse
    ELSE Handled(ParseMatched(v.text,
                              ToInt(SubSeq(v.text, 3, 6)), ToInt(SubSeq(v.text, 7, 8)),
                              ToInt(SubSeq(v.text, 9, 10)), ToInt(SubSeq(v.text, 11, 12)),
                              ToInt(SubSeq(v.text, 13, 14)), ToInt(SubSeq(v.text, 15, 16))))

(***************************************************************************)
(* format_size, lines 1494-1505 (abstract text of the size)                *)
(***************************************************************************)
format_size(n) == IF n < 1024 THEN "B" ELSE "KiB"

(***************************************************************************)
(* add_basic_file_info, lines 1507-1575, called with stats /= None.        *)
(* Result: the findings it appends and the "File System Info" group.       *)
(***************************************************************************)
\* a comparison that also reports a gap of exactly the tolerance
before_or_at_tolerance(t, created) == t <= created - FsTolerance

\* lines 1553-1558: t < creation_dt - tolerance
significantly_before(t, created) == t < created - FsTolerance

add_basic_file_info(f, w) ==
    IF w.fs_exc
    THEN [an |-> << Bare(f, "Error processing file system stats") >>,
          li |-> << >>,
          node |-> Group("File System Info",
                     << Leaf("Error", "Could not process timestamps/size"),
                        Leaf("File Size", "Error processing"),
                        Leaf("Created", "Error processing"),
                        Leaf("Modified", "Error processing"),
                        Leaf("Accessed", "Error processing"),
                        Leaf("Extension", w.ext) >>)]
    ELSE [an |-> << >>,
          li |-> (IF significantly_before(w.mod, w.cre)
                  THEN << Quoted(f, "Filesystem Time Issue: Modified before Created") >>
                  ELSE << >>)
                 \o (IF significantly_before(w.acc, w.cre)
                     THEN << Quoted(f, "Filesystem Time Issue: Accessed before Created") >>
                     ELSE << >>)
                 \o (IF w.size = 0
                     THEN << Quoted(f, "File size is 0 bytes (empty file)") >>
                     ELSE << >>),
          node |-> Group("File System Info",
                     << Leaf("File Size", format_size(w.size)),
                        Leaf("Created", "time"),
                        Leaf("Modified", "time"),
                        Leaf("Accessed", "time"),
                        Leaf("Extension", w.ext) >>)]

(***************************************************************************)
(* check_file_signature_mismatch, lines 726-756.                           *)
(* red_flags is a dict literal: iteration follows insertion order.         *)
(* true_type is modelled by the set of keywords it contains.               *)
(***************************************************************************)
red_flags ==
    << << ".jpg", "PDF", "FAKE IMAGE: This is actually a PDF document" >>,
       << ".jpg", "executable", "MALWARE: This 'image' is an executable" >>,
       << ".pdf", "executable", "MALWARE: This PDF is an executable" >>,
       << ".docx", "executable", "MALWARE: This document is an executable" >>,
       << ".exe", "text", "SUSPICIOUS: Executable masquerading as text" >>,
       << ".zip", "executable", "MALWARE: Archive is actually an executable" >>,
       << ".png", "executable", "MALWARE: This image is an executable" >> >>

GenericExecutable(ext) == "SUSPICIOUS: " \o ext \o " file is actually an executable"

FlagMatches(ext, true_type) ==
    { i \in 1..Len(red_flags) : ext = red_flags[i][1] /\ red_flags[i][2] \in true_type }

Min(S) == CHOOSE x \in S : \A y \in S : x <= y

\* a mis-ordered scan: the generic executable test runs before the table
sig_generic_first(have_magic, raw_ext, sniff) ==
    IF ~have_magic \/ sniff.raises THEN None
    ELSE LET ext == Lower(raw_ext)
             hits == FlagMatches(ext, sniff.type)
         IN  IF "executable" \in sniff.type /\ Lower(ext) \notin ExecutableExts
             THEN GenericExecutable(ext)
             ELSE IF hits /= {} THEN red_flags[Min(hits)][3] ELSE None

check_file_signature_mismatch(have_magic, raw_ext, sniff) ==
    IF ~have_magic THEN None
    ELSE IF sniff.raises THEN None
    ELSE LET ext == Lower(raw_ext)
             hits == FlagMatches(ext, sniff.type)
         IN  IF hits /= {} THEN red_flags[Min(hits)][3]
             ELSE IF "executable" \in sniff.type /\ Lower(ext) \notin ExecutableExts
                  THEN GenericExecutable(ext)
                  ELSE None

(***************************************************************************)
(* check_file_size_anomalies, lines 785-799                                *)
(***************************************************************************)
check_file_size_anomalies(w) ==
    (IF w.size = 0 THEN << "EMPTY FILE" >> ELSE << >>)
    \o (IF Lower(w.ext) \in SmallCheckedExts /\ w.size < SmallFileLimit
        THEN << "SUSPICIOUSLY SMALL" >> ELSE << >>)

(***************************************************************************)
(* Extractor state: findings and group children accumulated so far, and    *)
(* the exception raised inside the extractor's try block, if any.          *)
(***************************************************************************)
Start == [an |-> << >>, li |-> << >>, ch |-> << >>, exc |-> None]
Add(st, an, li, ch) ==
    IF st.exc /= None THEN st
    ELSE [an |-> st.an \o an, li |-> st.li \o li, ch |-> st.ch \o ch, exc |-> None]
Raise(st, e) == IF st.exc /= None THEN st ELSE [st EXCEPT !.exc = e]
When(c, s) == IF c THEN s ELSE << >>

\* a comparison that does not test whether the stats were read
FsTimesAssumed(w, have_stats) == ~w.fs_exc

\* filesystem times the extractors compare against (lines 1663-1672, 1792-1801,
\* 1966-1975): None when stats is None or the conversion fails
FsTimesKnown(w, have_stats) == have_stats /\ ~w.fs_exc
FsModified(w, have_stats) == IF FsTimesKnown(w, have_stats) THEN Naive(w.mod) ELSE NoDt
FsCreated(w, have_stats) == IF FsTimesKnown(w, have_stats) THEN Naive(w.cre) ELSE NoDt

(***************************************************************************)
(* process_pdf, lines 1782-1906 (PyPDF2 present; the caller tests it).     *)
(***************************************************************************)
PdfFields(f, w) ==
    LET full == w.pdf_meta = "full"
        prod == When(full /\ w.producer /= None, << Leaf("Producer", w.producer) >>)
        crea == When(full /\ w.creator /= None, << Leaf("Creator", w.creator) >>)
        cd   == When(full /\ w.cdate.some, << Leaf("Creation Date", "date") >>)
        md   == When(full /\ w.mdate.some, << Leaf("Modification Date", "date") >>)
    IN  [an |-> << >>,
         li |-> When(full /\ w.creator = "photoshop", << Quoted(f, "Created with Photoshop") >>),
         ch |-> prod \o crea \o cd \o md]

PdfTimes(st, f, w, have_stats) ==
    LET full == w.pdf_meta = "full"
        c == IF full THEN w.cdate ELSE NoDt
        m == IF full THEN w.mdate ELSE NoDt
        fsm == FsModified(w, have_stats)
        both == c.some /\ m.some
        s1 == IF ~full THEN st
              ELSE IF both /\ ~Comparable(m, c) THEN Raise(st, "TypeError")
              ELSE IF both /\ DtLess(m, c)
                   THEN Add(st, << >>,
                            << Quoted(f, "PDF Time Issue: ModDate before CreationDate") >>,
                            << Leaf("TIME INCONSISTENCY", "ModDate before CreationDate") >>)
                   ELSE st
        cn == StripTz(c)
    IN  IF full /\ cn.some /\ fsm.some /\ cn.wall > fsm.wall + OneMinute
        THEN Add(s1, << >>,
                 << Quoted(f, "PDF Time Issue: CreationDate after Filesystem Modified") >>,
                 << Leaf("TIME INCONSISTENCY", "PDF created after filesystem modified") >>)
        ELSE s1

PdfPages(st, f, w) ==
    LET s1 == IF w.pages < 0 THEN Raise(st, "PdfReadError")
              ELSE Add(st, << >>, << >>, << Leaf("Page Count", "n") >>)
        s2 == IF w.encrypted
              THEN Add(s1, << Quoted(f, "Encrypted PDF document") >>, << >>,
                       << Leaf("ENCRYPTION", "Document is encrypted") >>)
              ELSE s1
    IN  IF w.encrypted /\ w.pdf_meta = "none" /\ w.pages > 0
        THEN Add(s2, << Quoted(f, "PDF metadata likely hidden by encryption") >>, << >>,
                 << Leaf("HIDDEN METADATA", "Metadata likely encrypted") >>)
        ELSE s2

PdfProducer(st, f, w) ==
    LET p == IF w.pdf_meta = "full" THEN w.producer ELSE None
    IN  IF p = None THEN st
        ELSE IF p = "bytes" THEN Raise(st, "TypeError")
        ELSE IF p = "crack"
             THEN Add(st, << Quoted(f, "Suspicious PDF producer") >>, << >>,
                      << Leaf("SUSPICIOUS PRODUCER", p) >>)
             ELSE st

PdfStatus(st, f, w) ==
    IF w.pdf_meta = "full" THEN st
    ELSE IF w.pages = 0
         THEN Add(st, << >>,
                  << Quoted(f, "PDF has no metadata and 0 pages") >>,
                  << Leaf("Status", "No metadata found and 0 pages.") >>)
         ELSE Add(st, << >>, << >>, << Leaf("Status", "No standard metadata found.") >>)

\* a handler that logs the anomaly twice
PdfHandlerTwice(st, f) ==
    IF st.exc = None THEN [an |-> << >>, ch |-> << >>]
    ELSE [an |-> << Bare(f, "Error processing PDF"), Bare(f, "Error processing PDF") >>,
          ch |-> << Leaf("Error", "PDF processing failed") >>]

\* the except clauses of process_pdf, lines 1897-1906
PdfHandler(st, f) ==
    CASE st.exc = None -> [an |-> << >>, ch |-> << >>]
      [] st.exc = "FileNotFoundError" ->
           [an |-> << Bare(f, "File not found during PDF processing") >>,
            ch |-> << Leaf("Error", "File not found.") >>]
      [] st.exc = "PdfReadError" ->
           [an |-> << Bare(f, "Error reading PDF (likely corrupt or password protected)") >>,
            ch |-> << Leaf("Error", "Failed to read PDF") >>]
      [] OTHER ->
           [an |-> << Bare(f, "Error processing PDF") >>,
            ch |-> << Leaf("Error", "PDF processing failed") >>]

process_pdf(f, w, have_stats) ==
    LET s0 == IF w.pdf_open /= "ok" THEN Raise(Start, w.pdf_open)
              ELSE LET r == PdfFields(f, w) IN Add(Start, r.an, r.li, r.ch)
        s1 == PdfTimes(s0, f, w, have_stats)
        s2 == PdfPages(s1, f, w)
        s3 == PdfProducer(s2, f, w)
        s4 == PdfStatus(s3, f, w)
        h  == PdfHandler(s4, f)
    IN  [an |-> s4.an \o h.an, li |-> s4.li,
         nodes |-> << Group("PDF Metadata", s4.ch \o h.ch) >>,
         raised |-> s4.exc /= None]

(***************************************************************************)
(* process_image_exif, lines 1652-1780 (Pillow present).                   *)
(* w.tags is the set of EXIF tag names of the image, w.img_open the        *)
(* outcome of Image.open / load / getexif.                                 *)
(***************************************************************************)
TagOrder == << "Make", "Model", "Software", "DateTimeOriginal", "DateTimeDigitized",
               "SerialNumber" >>
required_tags == << "DateTimeOriginal", "Make", "Model" >>

RECURSIVE TagLeaves(_, _)
TagLeaves(order, tags) ==
    IF order = << >> THEN << >>
    ELSE When(Head(order) \in tags, << Leaf(Head(order), "value") >>)
         \o TagLeaves(Tail(order), tags)

\* every required tag reported, present or not
MissingTagsAll(req, tags) == req

\* line 1760
RECURSIVE MissingTags(_, _)
MissingTags(req, tags) ==
    IF req = << >> THEN << >>
    ELSE When(Head(req) \notin tags, << Head(req) >>) \o MissingTags(Tail(req), tags)

ExifBody(f, w, have_stats) ==
    LET dto == IF "DateTimeOriginal" \in w.tags THEN Naive(w.dto) ELSE NoDt
        dtd == IF "DateTimeDigitized" \in w.tags THEN Naive(w.dtd) ELSE NoDt
        fsm == FsModified(w, have_stats)
        fsc == FsCreated(w, have_stats)
        s1 == Add(Start, << >>, << >>, TagLeaves(TagOrder, w.tags))
        s2 == IF "SerialNumber" \in w.tags
              THEN Add(s1, << >>, << Quoted(f, "Camera serial number found") >>,
                       << Leaf("Camera Serial Number", "serial") >>)
              ELSE s1
        s3 == IF "Software" \in w.tags /\ w.software = "photoshop"
              THEN Add(s2, << Quoted(f, "Edited with software") >>, << >>,
                       << Leaf("EDITING SOFTWARE", w.software) >>)
              ELSE s2
        s4 == Add(s3, << >>,
                  When(dto.some /\ dtd.some /\ dto.wall > dtd.wall,
                       << Quoted(f, "EXIF Time Issue: DateTimeOriginal after DateTimeDigitized") >>)
                  \o When(dto.some /\ fsm.some /\ dto.wall > fsm.wall + OneMinute,
                       << Quoted(f, "EXIF Time Issue: DateTimeOriginal after Filesystem Modified") >>)
                  \o When(dto.some /\ fsc.some /\ dto.wall < fsc.wall - OneMinute,
                       << Quoted(f, "EXIF Note: DateTimeOriginal before Filesystem Created") >>),
                  << >>)
        miss == MissingTags(required_tags, w.tags)
    IN  IF miss /= << >>
        THEN Add(s4, << QuotedArg(f, "Missing common EXIF tags", miss) >>,
                 << >>, << Leaf("MISSING TAGS", "list") >>)
        ELSE s4

ExifHandler(exc, f) ==
    CASE exc = None -> [an |-> << >>, ch |-> << >>]
      [] exc = "FileNotFoundError" ->
           [an |-> << Bare(f, "File not found during EXIF processing") >>,
            ch |-> << Leaf("Error", "File not found.") >>]
      [] exc = "UnidentifiedImageError" ->
           [an |-> << Bare(f, "Cannot identify image file") >>,
            ch |-> << Leaf("Error", "Cannot identify image file.") >>]
      [] OTHER ->
           [an |-> << Bare(f, "Error processing image EXIF") >>,
            ch |-> << Leaf("Error", "EXIF processing failed") >>]

process_image_exif(f, w, have_stats) ==
    LET s0 == IF w.img_open /= "ok" THEN Raise(Start, w.img_open)
              ELSE IF w.tags /= {} THEN ExifBody(f, w, have_stats)
              ELSE Add(Start,
                       When(Lower(w.ext) \in NoExifExts,
                            << Quoted(f, "No EXIF data found in image file") >>),
                       << >>, << Leaf("Status", "No EXIF data found.") >>)
        h == ExifHandler(s0.exc, f)
    IN  [an |-> s0.an \o h.an, li |-> s0.li,
         nodes |-> << Group("EXIF Metadata", s0.ch \o h.ch) >>,
         raised |-> s0.exc /= None]

(***************************************************************************)
(* process_docx, lines 1908-2029 (python-docx present).                    *)
(***************************************************************************)
\* "word" in text.lower(), for the author texts the model uses
Contains(text, word) ==
    CASE text = "Administrator user" -> word \in {"admin", "user"}
      [] text = "admin" -> word = "admin"
      [] text = "temp" -> word = "temp"
      [] text = "user" -> word = "user"
      [] OTHER -> FALSE

DocxProps(f, w) ==
    LET lmb == w.lmb
        admin == Contains(lmb, "admin")
        generic == Contains(lmb, "temp") \/ Contains(lmb, "user")
        s1 == IF lmb = None THEN Start
              ELSE Add(Start,
                       When(admin, << Quoted(f, "Modified by admin account") >>),
                       When(~admin /\ generic, << Quoted(f, "Modified by generic account") >>),
                       << Leaf("Last Modified By", lmb) >>)
        s2 == Add(s1, << >>, << >>,
                  When(w.created.some, << Leaf("Created", "date") >>)
                  \o When(w.modified.some, << Leaf("Modified", "date") >>))
    IN  s2

DocxTimes(st, f, w, have_stats) ==
    LET c == StripTz(w.created)
        m == StripTz(w.modified)
        fsm == FsModified(w, have_stats)
        s1 == IF c.some /\ m.some /\ m.wall < c.wall
              THEN Add(st, << >>,
                       << Quoted(f, "DOCX Time Issue: Modified before Created") >>,
                       << Leaf("TIME INCONSISTENCY", "Modified before Created") >>)
              ELSE st
    IN  IF c.some /\ fsm.some /\ c.wall > fsm.wall + OneMinute
        THEN Add(s1, << >>,
                 << Quoted(f, "DOCX Time Issue: Created after Filesystem Modified") >>,
                 << Leaf("TIME INCONSISTENCY", "Created after filesystem modified") >>)
        ELSE s1

DocxStructure(st, f, w) ==
    LET s1 == IF w.doc_late
              THEN Raise(Add(st, << >>, << >>, << Group("Document Statistics", << >>) >>),
                         "Exception")
              ELSE Add(st, << >>,
                       When(w.shapes > ManyShapes,
                            << Quoted(f, "Contains many embedded objects") >>),
                       << Group("Document Statistics",
                            << Leaf("Paragraphs", "n"), Leaf("Tables", "n"),
                               Leaf("Inline Shapes (Images, etc.)", "n") >>
                            \o When(w.shapes > ManyShapes,
                                    << Leaf("MANY EMBEDDED OBJECTS", "n") >>)) >>)
        s2 == IF w.vba
              THEN Add(s1, << Quoted(f, "Contains VBA macros") >>, << >>,
                       << Leaf("MACRO DETECTED", "Document contains VBA macros") >>)
              ELSE s1
    IN  IF w.lmb = None /\ ~w.created.some /\ ~w.modified.some
        THEN Add(s2, << >>, << >>, << Leaf("Status", "No standard metadata found.") >>)
        ELSE s2

DocxHandler(exc, f) ==
    CASE exc = None -> [an |-> << >>, ch |-> << >>]
      [] exc = "FileNotFoundError" ->
           [an |-> << Bare(f, "File not found during DOCX processing") >>,
            ch |-> << Leaf("Error", "File not found.") >>]
      [] exc = "BadZipFile" ->
           [an |-> << Bare(f, "Error processing DOCX - BadZipFile") >>,
            ch |-> << Leaf("Error", "DOCX processing failed: BadZipFile (corrupt?)") >>]
      [] OTHER ->
           [an |-> << Bare(f, "Error processing DOCX") >>,
            ch |-> << Leaf("Error", "DOCX processing failed") >>]

process_docx(f, w, have_stats) ==
    LET s0 == IF w.doc_open /= "ok" THEN Raise(Start, w.doc_open) ELSE DocxProps(f, w)
        s1 == DocxTimes(s0, f, w, have_stats)
        s2 == DocxStructure(s1, f, w)
        h == DocxHandler(s2.exc, f)
    IN  [an |-> s2.an \o h.an, li |-> s2.li,
         nodes |-> << Group("DOCX Metadata", s2.ch \o h.ch) >>,
         raised |-> s2.exc /= None]

(***************************************************************************)
(* process_media, lines 2031-2125 (mutagen present).                       *)
(***************************************************************************)
MediaHandler(exc, f) ==
    CASE exc = None -> [an |-> << >>, ch |-> << >>]
      [] exc = "FileNotFoundError" ->
           [an |-> << Bare(f, "File not found during Media processing") >>,
            ch |-> << Leaf("Error", "File not found.") >>]
      [] exc = "MutagenError" ->
           [an |-> << Bare(f, "Error processing Media file (mutagen error)") >>,
            ch |-> << Leaf("Error", "Mutagen processing failed") >>]
      [] OTHER ->
           [an |-> << Bare(f, "Error processing Media file") >>,
            ch |-> << Leaf("Error", "Media processing failed") >>]

process_media(f, w, have_stats) ==
    LET s0 == CASE w.media_open = "ok" ->
                     Add(Start, << >>, << >>,
                         When(w.media_tags, << Leaf("Title", "value") >>)
                         \o << Group("Technical Info", << Leaf("Duration (s)", "n") >>) >>)
                [] w.media_open = "unsupported" ->
                     Add(Start, << >>, << >>,
                         << Leaf("Status", "File is not a supported media format or is corrupt.") >>)
                [] w.media_open = "complex" ->
                     Add(Start, << >>, << >>,
                         << Leaf("Status", "Standard tags not found, complex tags may exist.") >>)
                [] OTHER -> Raise(Start, w.media_open)
        h == MediaHandler(s0.exc, f)
    IN  [an |-> s0.an \o h.an, li |-> s0.li,
         nodes |-> << Group("Media Metadata", s0.ch \o h.ch) >>,
         raised |-> s0.exc /= None]

(***************************************************************************)
(* calculate_entropy, lines 878-898: a read failure is swallowed and       *)
(* yields 0.0.  Entropy values are in 1/100000 bit.                        *)
(***************************************************************************)
calculate_entropy(w) == IF w.read_fail THEN 0 ELSE w.entropy

(***************************************************************************)
(* f"{entropy:.4f}", lines 847 and 852: the value rounded to four decimal  *)
(* places, written with four digits after the point.                       *)
(***************************************************************************)
format_4f(entropy) ==
    LET q == (entropy + 5) \div 10
        d == q % 10000
    IN  ToString(q \div 10000) \o "." \o ToString(d \div 1000) \o ToString((d \div 100) % 10)
            \o ToString((d \div 10) % 10) \o ToString(d % 10)

high_entropy_inclusive(entropy) == entropy >= EntropyThreshold

\* line 851
high_entropy(entropy) == entropy > EntropyThreshold

(***************************************************************************)
(* check_steganography, lines 801-877                                      *)
(***************************************************************************)
check_steganography(f, w, have_lsb) ==
    LET ext == Lower(w.ext)
        \* lsb.reveal: an exception is swallowed by the inner try (809-812)
        hidden == IF w.lsb_out = "raises" THEN None ELSE w.lsb_out
        found == hidden = "message"
        lsbpart ==
            IF have_lsb /\ ext \in LsbExts
            THEN IF found
                 THEN [an |-> << Quoted(f, "STEGANOGRAPHY (LSB): Possible hidden data detected") >>,
                       ch |-> << Leaf("WARN LSB Detection", "Possible hidden data detected") >>]
                 ELSE [an |-> << >>,
                       ch |-> << Leaf("LSB Detection", "No easily extractable LSB data found.") >>]
            ELSE IF have_lsb
                 THEN [an |-> << >>,
                       ch |-> << Leaf("LSB Detection", "Skipped (only supports PNG and BMP).") >>]
                 ELSE [an |-> << >>,
                       ch |-> << Leaf("LSB Detection", "Stegano library not found.") >>]
        entropy == calculate_entropy(w)
        high == high_entropy(entropy)
        shown == format_4f(entropy)
        entpart ==
            IF ext \in ImageExts
            THEN IF high
                 THEN [an |-> << QuotedArg(f, "ENTROPY ANOMALY: High entropy detected", << shown >>) >>,
                       ch |-> << Leaf("Entropy", shown), Leaf("WARN High Entropy", shown) >>]
                 ELSE [an |-> << >>,
                       ch |-> << Leaf("Entropy", shown),
                                 Leaf("Entropy Status", "Entropy within expected range.") >>]
            ELSE [an |-> << >>,
                  ch |-> << Leaf("Entropy Analysis", "Skipped (only applicable to image files).") >>]
        has_stegano_findings == lsbpart.an /= << >> \/ entpart.an /= << >>
        tail == When(~has_stegano_findings,
                     << Leaf("Status", "Analysis performed, no steganography anomalies detected.") >>)
    IN  [an |-> lsbpart.an \o entpart.an,
         node |-> Group("Steganography Analysis", lsbpart.ch \o entpart.ch \o tail)]

(***************************************************************************)
(* _collect_metadata_dict (376-389) followed by dict.get(key, ""):         *)
(* the dictionary built for a file item is keyed by the texts of its       *)
(* direct children; a later child overwrites an earlier one.               *)
(***************************************************************************)
MetadataGet(item, key) ==
    LET hits == { i \in 1..Len(item) :
                    item[i].k = key /\ (item[i].ch /= << >> \/ item[i].v /= "") }
    IN  IF hits = {} THEN ""
        ELSE LET last == CHOOSE i \in hits : \A j \in hits : j <= i
             IN  IF item[last].ch /= << >> THEN "dict" ELSE item[last].v

(***************************************************************************)
(* _collect_metadata_dict, lines 376-389, for export_metadata: the         *)
(* dictionary is written as the sequence of its entries in insertion       *)
(* order, a nested dictionary as the children of its entry.                *)
(***************************************************************************)
\* metadata_dict[prop] = value: a key already present keeps its place and
\* takes the new value
DictPut(d, n) ==
    IF \E i \in 1..Len(d) : d[i].k = n.k
    THEN [i \in 1..Len(d) |-> IF d[i].k = n.k THEN n ELSE d[i]]
    ELSE Append(d, n)

RECURSIVE collect_metadata_dict(_)
collect_metadata_dict(item) ==
    IF item = << >> THEN << >>
    ELSE LET child == item[Len(item)]
             before == collect_metadata_dict(SubSeq(item, 1, Len(item) - 1))
         IN  IF child.ch /= << >>
             THEN DictPut(before, Group(child.k, collect_metadata_dict(child.ch)))
             ELSE IF child.v /= "" THEN DictPut(before, Leaf(child.k, child.v))
             ELSE before

(***************************************************************************)
(* check_suspicious_authors, lines 758-783                                 *)
(***************************************************************************)
check_suspicious_authors(item, file_type) ==
    CASE file_type = "docx" ->
           When(Contains(MetadataGet(item, "Last Modified By"), "admin"),
                << "SUSPECT USER" >>)
      [] file_type = "pdf" ->
           When(MetadataGet(item, "Creator") = "photoshop", << "UNEXPECTED CREATOR" >>)
           \o When(MetadataGet(item, "Producer") = "crack", << "SUSPICIOUS PRODUCER" >>)
      [] file_type = "image" ->
           When(MetadataGet(item, "SerialNumber") = "long serial number", << "CAMERA ID" >>)
      [] OTHER -> << >>

RECURSIVE WarnLeaves(_, _)
WarnLeaves(key, ws) ==
    IF ws = << >> THEN << >> ELSE << Leaf(key, Head(ws)) >> \o WarnLeaves(key, Tail(ws))
RECURSIVE WarnFindings(_, _)
WarnFindings(f, ws) ==
    IF ws = << >> THEN << >> ELSE << Bare(f, Head(ws)) >> \o WarnFindings(f, Tail(ws))

(***************************************************************************)
(* process_next_file, first try block, lines 1272-1295                     *)
(***************************************************************************)
StatBlock(f, w, lib) ==
    IF w.stat = "fail"
    THEN [an |-> << Bare(f, "Error reading file system stats") >>,
          li |-> << >>,
          item |-> << Group("File System Info", << Leaf("Error", "Could not read stats") >>) >>,
          have_stats |-> FALSE]
    ELSE LET b == add_basic_file_info(f, w)
             sig == check_file_signature_mismatch("magic" \in lib, w.ext, w.sniff)
             sizes == check_file_size_anomalies(w)
         IN  [an |-> b.an
                     \o When(sig /= None, << Bare(f, sig) >>)
                     \o WarnFindings(f, sizes),
              li |-> b.li,
              item |-> << b.node >>
                       \o When(sig /= None, << Leaf("SIGNATURE MISMATCH", sig) >>)
                       \o WarnLeaves("SIZE WARNING", sizes),
              have_stats |-> TRUE]

(***************************************************************************)
(* process_next_file, dispatch on the extension, lines 1297-1326           *)
(***************************************************************************)
\* a list that also passes over the warning leaves
NotSpecificNorWarning ==
    {"File System Info", "Status", "Processing Error", "Steganography Analysis",
     "SIGNATURE MISMATCH", "SIZE WARNING"}

\* the list of line 1321
NotSpecific == {"File System Info", "Status", "Processing Error", "Steganography Analysis"}

FileType(w, lib) ==
    LET ext == Lower(w.ext)
    IN  CASE "PIL" \in lib /\ ext \in ImageExts -> "image"
          [] "PyPDF2" \in lib /\ ext = ".pdf" -> "pdf"
          [] "docx" \in lib /\ ext = ".docx" -> "docx"
          [] "mutagen" \in lib /\ ext \in {".mp3", ".mp4"} -> "media"
          [] OTHER -> None

\* lines 1302-1306: the steganography findings follow those of the extractor
WithStego(r, g) ==
    [an |-> r.an \o g.an, li |-> r.li, nodes |-> r.nodes \o << g.node >>, raised |-> r.raised]

Extract(f, w, lib, stego, have_stats, item) ==
    LET ft == FileType(w, lib)
    IN  CASE ft = "image" ->
               IF stego
               THEN WithStego(process_image_exif(f, w, have_stats),
                              check_steganography(f, w, "stegano" \in lib))
               ELSE process_image_exif(f, w, have_stats)
          [] ft = "pdf" -> process_pdf(f, w, have_stats)
          [] ft = "docx" -> process_docx(f, w, have_stats)
          [] ft = "media" -> process_media(f, w, have_stats)
          [] OTHER ->
               [an |-> << >>, li |-> << >>,
                nodes |-> When(have_stats /\ \A i \in 1..Len(item) : item[i].k \in NotSpecific,
                               << Leaf("Status", "Unsupported file type or required library missing.") >>),
                raised |-> FALSE]

\* a catch-all that logs nothing
CatchAllSilent(f) ==
    [an |-> << >>, item |-> << Leaf("Processing Error", "error") >>]

\* the handler of the second try block, lines 1338-1341
CatchAll(f) ==
    [an |-> << Bare(f, "Unexpected error during processing") >>,
     item |-> << Leaf("Processing Error", "error") >>]

(***************************************************************************)
(* process_next_file, one file: lines 1262-1341.  w.escape says whether an *)
(* exception escapes the inner handlers of the second try block, before    *)
(* the extractor has appended anything ("pre") or after it and the         *)
(* steganography check have returned ("post").                             *)
(***************************************************************************)
\* lines 1329-1341: the author review, or the catch-all handler; b1 is the
\* outcome of the first try block, x that of the extractor, c the handler's
Review(f, w, ft, b1, x, aw, c) ==
    CASE w.escape = "pre" ->
           [an |-> b1.an \o c.an, li |-> b1.li, item |-> b1.item \o c.item,
            caught |-> TRUE, raised |-> FALSE, stat_failed |-> ~b1.have_stats, ft |-> ft]
      [] w.escape = "post" ->
           [an |-> b1.an \o x.an \o c.an, li |-> b1.li \o x.li,
            item |-> b1.item \o x.nodes \o c.item,
            caught |-> TRUE, raised |-> x.raised, stat_failed |-> ~b1.have_stats, ft |-> ft]
      [] OTHER ->
           [an |-> b1.an \o x.an, li |-> b1.li \o x.li \o WarnFindings(f, aw),
            item |-> b1.item \o x.nodes \o WarnLeaves("AUTHOR WARNING", aw),
            caught |-> FALSE, raised |-> x.raised, stat_failed |-> ~b1.have_stats, ft |-> ft]

\* lines 1329-1332: the dictionary of the item built so far goes to
\* check_suspicious_authors when a file type was chosen
Authors(ft, b1, x) ==
    IF ft = None THEN << >> ELSE check_suspicious_authors(b1.item \o x.nodes, ft)

Reviewed(f, w, ft, b1, x) == Review(f, w, ft, b1, x, Authors(ft, b1, x), CatchAll(f))

\* lines 1297-1326: the second try block, after the first one gave b1
Dispatch(f, w, lib, stego, b1) ==
    Reviewed(f, w, FileType(w, lib), b1, Extract(f, w, lib, stego, b1.have_stats, b1.item))

ProcessFile(f, w, lib, stego) == Dispatch(f, w, lib, stego, StatBlock(f, w, lib))

(***************************************************************************)
(* The filesystem: facts about the candidate files.                        *)
(***************************************************************************)
BaseFacts ==
    [ext |-> ".jpg", stat |-> "ok", fs_exc |-> FALSE, cre |-> 103, mod |-> 103, acc |-> 103,
     size |-> 1000, sniff |-> [raises |-> FALSE, type |-> {}], escape |-> "none",
     img_open |-> "ok", tags |-> {"DateTimeOriginal", "Make", "Model"}, software |-> "plain",
     dto |-> 103, dtd |-> 103, lsb_out |-> None, read_fail |-> FALSE, entropy |-> 500000,
     pdf_open |-> "ok", pdf_meta |-> "full", creator |-> None, producer |-> None,
     cdate |-> NoDt, mdate |-> NoDt, pages |-> 1, encrypted |-> FALSE,
     doc_open |-> "ok", lmb |-> None, created |-> NoDt, modified |-> NoDt,
     doc_late |-> FALSE, shapes |-> 0, vba |-> FALSE,
     media_open |-> "ok", media_tags |-> TRUE]

Sniffs == { [raises |-> TRUE, type |-> {}] }
          \cup { [raises |-> FALSE, type |-> t] : t \in {{}, {"PDF"}, {"executable"}} }

\* filesystem facts: stat outcome, timestamps, size
FsFamily ==
    { [BaseFacts EXCEPT !.ext = e, !.stat = "fail"] : e \in {".jpg", ".pdf", ".txt"} }
    \cup { [BaseFacts EXCEPT !.ext = e, !.fs_exc = x, !.mod = m, !.acc = a, !.size = z] :
             e \in {".jpg", ".pdf", ".txt"}, x \in BOOLEAN, m \in {100, 101, 103},
             a \in {100, 103}, z \in {0, 511, 1000} }

\* every combination of a stat failure, a failing extractor, a failing
\* detector and an escaping exception, over the extensions
FailureFamily ==
    { [BaseFacts EXCEPT !.ext = e, !.stat = st, !.sniff = sn, !.size = z, !.escape = esc,
                        !.img_open = x, !.pdf_open = x, !.doc_open = x, !.media_open = x,
                        !.read_fail = rf] :
        e \in {".jpg", ".JPG", ".pdf", ".docx", ".txt"},
        st \in {"ok", "fail"}, sn \in Sniffs \ {[raises |-> FALSE, type |-> {"PDF"}]},
        z \in {511, 1000},
        esc \in {"none", "pre", "post"}, x \in {"ok", "Exception"}, rf \in BOOLEAN }

ImageFamily ==
    { [BaseFacts EXCEPT !.ext = e, !.stat = st, !.img_open = o] :
        e \in {".jpg", ".gif"}, st \in {"ok", "fail"},
        o \in {"FileNotFoundError", "UnidentifiedImageError", "Exception"} }
    \cup { [BaseFacts EXCEPT !.ext = e, !.stat = st, !.tags = t, !.software = sw, !.dto = d] :
             e \in {".jpg", ".gif"}, st \in {"ok", "fail"},
             t \in { {}, {"Make"}, {"DateTimeOriginal", "Make", "Model"},
                     {"DateTimeOriginal", "DateTimeDigitized", "Software", "SerialNumber"} },
             sw \in {"plain", "photoshop"}, d \in {30, 103, 164} }
    \cup { [BaseFacts EXCEPT !.ext = e, !.lsb_out = l, !.read_fail = rf, !.entropy = en] :
             e \in {".jpg", ".png"}, l \in {"raises", None, "blank", "message"},
             rf \in BOOLEAN, en \in {500000, 780000, 780004, 780010} }

PdfFamily ==
    { [BaseFacts EXCEPT !.ext = ".pdf", !.stat = st, !.size = z, !.pdf_open = o] :
        st \in {"ok", "fail"}, z \in {511, 1000},
        o \in {"FileNotFoundError", "PdfReadError", "Exception"} }
    \cup { [BaseFacts EXCEPT !.ext = ".pdf", !.stat = st, !.pdf_meta = pm, !.pages = pg,
                             !.encrypted = en] :
             st \in {"ok", "fail"}, pm \in {"none", "empty"}, pg \in {-1, 0, 1},
             en \in BOOLEAN }
    \cup { [BaseFacts EXCEPT !.ext = ".pdf", !.stat = st, !.creator = c, !.producer = p,
                             !.cdate = cd, !.mdate = md, !.pages = pg, !.encrypted = en] :
             st \in {"ok", "fail"}, c \in {None, "photoshop"},
             p \in {None, "crack", "bytes"},
             cd \in {NoDt, Naive(164), Aware(164, 0)}, md \in {NoDt, Naive(30)},
             pg \in {-1, 1}, en \in BOOLEAN }

DocxFamily ==
    { [BaseFacts EXCEPT !.ext = ".docx", !.stat = st, !.doc_open = o] :
        st \in {"ok", "fail"}, o \in {"FileNotFoundError", "BadZipFile", "Exception"} }
    \cup { [BaseFacts EXCEPT !.ext = ".docx", !.stat = st, !.lmb = l, !.created = c,
                             !.modified = m, !.doc_late = dl, !.shapes = sh, !.vba = v] :
             st \in {"ok", "fail"},
             l \in {None, "admin", "temp", "user", "Administrator user", "alice"},
             c \in {NoDt, Naive(164), Aware(164, 0)}, m \in {NoDt, Naive(30)},
             dl \in BOOLEAN,
             sh \in {0, 21}, v \in BOOLEAN }

MediaFamily ==
    { [BaseFacts EXCEPT !.ext = e, !.media_open = o, !.media_tags = t] :
        e \in {".mp3", ".mp4"}, t \in BOOLEAN,
        o \in {"ok", "unsupported", "complex", "FileNotFoundError", "MutagenError",
               "Exception"} }

\* the files of the batches with several files
FakeImage ==
    [BaseFacts EXCEPT !.tags = {"Make"}, !.entropy = 780010,
                      !.sniff = [raises |-> FALSE, type |-> {"PDF", "executable"}]]
UnreadableImage ==
    [BaseFacts EXCEPT !.stat = "fail", !.img_open = "Exception", !.read_fail = TRUE]
CorruptPdf ==
    [BaseFacts EXCEPT !.ext = ".pdf", !.pdf_open = "PdfReadError", !.size = 511,
                      !.mod = 100, !.sniff = [raises |-> TRUE, type |-> {}]]
AbandonedDocx ==
    [BaseFacts EXCEPT !.ext = ".docx", !.lmb = "temp", !.size = 0, !.escape = "post"]

BatchFacts == {FakeImage, UnreadableImage, CorruptPdf, AbandonedDocx}

RichFacts == FsFamily \cup FailureFamily \cup ImageFamily \cup PdfFamily \cup DocxFamily
             \cup MediaFamily \cup BatchFacts

\* facts tried with libraries missing
LibFacts ==
    { [BaseFacts EXCEPT !.ext = e, !.stat = st, !.sniff = sn, !.size = z] :
        e \in {".jpg", ".png", ".pdf", ".docx", ".mp3", ".txt"}, st \in {"ok", "fail"},
        sn \in Sniffs, z \in {0, 1000} }

PartialLibs == { AllLibs \ {"magic"}, AllLibs \ {"stegano"},
                 AllLibs \ {"PIL", "PyPDF2", "docx", "mutagen"}, {} }

BatchNames == {"a", "b", "c"}
SingleWorlds(facts) == { [n \in {"a"} |-> w] : w \in facts }
BatchWorlds ==
    { [n \in BatchNames |-> CASE n = "a" -> x [] n = "b" -> y [] OTHER -> z] :
        x \in {FakeImage, UnreadableImage}, y \in {UnreadableImage, CorruptPdf},
        z \in {CorruptPdf, AbandonedDocx} }

RECURSIVE ListsUpTo(_, _)
ListsUpTo(S, n) ==
    IF n = 0 THEN { << >> }
    ELSE LET shorter == ListsUpTo(S, n - 1)
         IN  shorter \cup { Append(l, x) : l \in shorter, x \in S }
\* lists of distinct files, as a file dialog or os.scandir returns them
Lists(S) == { l \in ListsUpTo(S, MaxFiles) : Cardinality(SeqToSet(l)) = Len(l) }

(***************************************************************************)
(* The application state machine                                           *)
(***************************************************************************)
BtnOff == [enabled |-> FALSE, count |-> 0]
NoTick == [file |-> None, index |-> 0, caught |-> FALSE, raised |-> FALSE,
           stat_failed |-> FALSE, ft |-> None, an0 |-> 0, li0 |-> 0]
NoBatch == [valid |-> FALSE, paths |-> << >>, stego |-> FALSE, an |-> << >>, li |-> << >>]
NoHist == [last |-> NoTick, prev |-> NoBatch]
NoZone == [kind |-> "none", sign |-> "+", h |-> 0, m |-> 0]
NoParts ==
    [form |-> "full", y |-> 0, mo |-> 0, d |-> 0, h |-> 0, mi |-> 0, s |-> 0, zone |-> NoZone]
NoDateProbe == [is_str |-> FALSE, text |-> << >>, parts |-> NoParts, done |-> FALSE]
NoGpsProbe == [lat |-> << >>, lat_ref |-> None, lon |-> << >>, lon_ref |-> None, done |-> FALSE]
NoProbe == [ext |-> "", sniff |-> [raises |-> FALSE, type |-> {}], magic |-> FALSE,
            done |-> FALSE]

\* __init__, lines 534-556, and the buttons created disabled (create_sidebar)
AppInit ==
    /\ file_paths = << >>
    /\ current_file_index = 0
    /\ anomalies = << >>
    /\ logical_issues = << >>
    /\ tree = << >>
    /\ file_path_map = {}
    /\ timer_active = FALSE
    /\ controls_enabled = TRUE
    /\ stegano_checked = FALSE
    /\ anomalies_btn = BtnOff
    /\ logical_issues_btn = BtnOff
    /\ status = "Ready"
    /\ hist = NoHist

\* batches of several files
Init ==
    /\ AppInit
    /\ libs = AllLibs
    /\ world \in BatchWorlds
    /\ sig_in = NoProbe
    /\ sig_out = None
    /\ date_in = NoDateProbe
    /\ date_out = NoParse
    /\ gps_in = NoGpsProbe
    /\ gps_out = NoGps

\* one file, over all the facts and library configurations
FileInit ==
    /\ AppInit
    /\ \/ libs = AllLibs /\ world \in SingleWorlds(RichFacts)
       \/ libs \in PartialLibs /\ world \in SingleWorlds(LibFacts)
    /\ sig_in = NoProbe
    /\ sig_out = None
    /\ date_in = NoDateProbe
    /\ date_out = NoParse
    /\ gps_in = NoGpsProbe
    /\ gps_out = NoGps

Running == timer_active
Finished == status = "Analysis complete" /\ ~timer_active

\* clear_results_ui_only, lines 2141-2150
clear_results_ui_only ==
    /\ tree' = << >>
    /\ anomalies' = << >>
    /\ logical_issues' = << >>
    /\ anomalies_btn' = BtnOff
    /\ logical_issues_btn' = BtnOff

\* the user ticks or unticks "Check for Steganography" (enabled checkbox only)
toggle_stegano ==
    /\ controls_enabled
    /\ stegano_checked' = ~stegano_checked
    /\ UNCHANGED << libs, world, file_paths, current_file_index, anomalies, logical_issues,
                    tree, file_path_map, timer_active, controls_enabled, anomalies_btn,
                    logical_issues_btn, status, hist, sig_in, sig_out,
                    date_in, date_out, gps_in, gps_out >>

\* select_files, lines 1178-1196: the dialog returns `files`
select_files(files) ==
    /\ controls_enabled
    /\ IF files /= << >>
       THEN /\ file_paths' = files
            /\ file_path_map' = SeqToSet(files)
            /\ status' = "Selected"
            /\ clear_results_ui_only
            /\ hist' = NoHist
       ELSE IF file_paths = << >>
            THEN /\ status' = "No files selected"
                 /\ clear_results_ui_only
                 /\ hist' = NoHist
                 /\ UNCHANGED << file_paths, file_path_map >>
            ELSE UNCHANGED << file_paths, file_path_map, status, tree, anomalies,
                              logical_issues, anomalies_btn, logical_issues_btn, hist >>
    /\ UNCHANGED << libs, world, current_file_index, timer_active, controls_enabled,
                    stegano_checked, sig_in, sig_out,
                    date_in, date_out, gps_in, gps_out >>

\* select_folder, lines 1198-1226: a folder was chosen; os.scandir yields
\* `found` and then, if `fails`, raises OSError
select_folder(found, fails) ==
    /\ controls_enabled
    /\ file_paths' = found
    /\ IF fails
       THEN /\ status' = "Error reading folder"
            /\ hist' = NoHist
            /\ UNCHANGED << file_path_map, tree, anomalies, logical_issues, anomalies_btn,
                            logical_issues_btn >>
       ELSE /\ file_path_map' = SeqToSet(found)
            /\ status' = "Selected folder"
            /\ clear_results_ui_only
            /\ hist' = NoHist
    /\ UNCHANGED << libs, world, current_file_index, timer_active, controls_enabled,
                    stegano_checked, sig_in, sig_out,
                    date_in, date_out, gps_in, gps_out >>

\* select_folder, lines 1224-1226: the dialog was cancelled
select_folder_cancel ==
    /\ controls_enabled
    /\ file_paths = << >>
    /\ status' = "No folder selected"
    /\ clear_results_ui_only
    /\ hist' = NoHist
    /\ UNCHANGED << libs, world, file_paths, file_path_map, current_file_index,
                    timer_active, controls_enabled, stegano_checked, sig_in, sig_out,
                    date_in, date_out, gps_in, gps_out >>

\* a start that keeps the findings of the batch before
start_keeping_findings ==
    /\ current_file_index' = 0
    /\ tree' = << >>
    /\ anomalies_btn' = BtnOff
    /\ logical_issues_btn' = BtnOff
    /\ status' = "Starting analysis"
    /\ controls_enabled' = FALSE
    /\ timer_active' = TRUE
    /\ hist' = [hist EXCEPT !.last = NoTick]
    /\ UNCHANGED << anomalies, logical_issues >>

\* start_analysis with files to analyse, lines 1234-1253
start_batch ==
    /\ current_file_index' = 0
    /\ anomalies' = << >>
    /\ logical_issues' = << >>
    /\ tree' = << >>
    /\ anomalies_btn' = BtnOff
    /\ logical_issues_btn' = BtnOff
    /\ status' = "Starting analysis"
    /\ controls_enabled' = FALSE
    /\ timer_active' = TRUE
    /\ hist' = [hist EXCEPT !.last = NoTick]

\* a start that does not test the list
start_unguarded == start_batch

\* start_analysis without files, lines 1229-1231
start_refused ==
    /\ status' = "No files or folder selected to analyze."
    /\ UNCHANGED << current_file_index, anomalies, logical_issues, tree, anomalies_btn,
                    logical_issues_btn, controls_enabled, timer_active, hist >>

\* start_analysis, lines 1228-1253
start_analysis ==
    /\ controls_enabled
    /\ IF file_paths = << >> THEN start_refused ELSE start_batch
    /\ UNCHANGED << libs, world, file_paths, file_path_map, stegano_checked, sig_in, sig_out,
                    date_in, date_out, gps_in, gps_out >>

\* a finish that enables both buttons whatever the sequences hold
finish_analysis_enabling_both ==
    /\ status' = "Analysis complete"
    /\ controls_enabled' = TRUE
    /\ anomalies_btn' = [enabled |-> TRUE, count |-> Len(anomalies)]
    /\ logical_issues_btn' = [enabled |-> TRUE, count |-> Len(logical_issues)]

\* finish_analysis, lines 1450-1475
finish_analysis ==
    /\ status' = "Analysis complete"
    /\ controls_enabled' = TRUE
    /\ anomalies_btn' = [enabled |-> anomalies /= << >>, count |-> Len(anomalies)]
    /\ logical_issues_btn' = [enabled |-> logical_issues /= << >>,
                              count |-> Len(logical_issues)]

\* a step that puts the newest findings first
AppendPrepending(an, li, r) ==
    [an |-> r.an \o an, li |-> r.li \o li, item |-> r.item,
     caught |-> r.caught, raised |-> r.raised, stat_failed |-> r.stat_failed, ft |-> r.ft]

Unseen(s, new) == SelectSeq(new, LAMBDA x : \A i \in 1..Len(s) : s[i].kind /= x.kind)

\* a step that drops a finding whose text an earlier file already produced
AppendDeduplicating(an, li, r) ==
    [an |-> an \o Unseen(an, r.an), li |-> li \o Unseen(li, r.li), item |-> r.item,
     caught |-> r.caught, raised |-> r.raised, stat_failed |-> r.stat_failed, ft |-> r.ft]

\* a step interrupted after the anomalies, before the logical issues
AppendAnomaliesOnly(an, li, r) ==
    [an |-> an \o r.an, li |-> li, item |-> r.item,
     caught |-> r.caught, raised |-> r.raised, stat_failed |-> r.stat_failed, ft |-> r.ft]

\* self.anomalies.append / self.logical_issues.append, lines 1282-1339: what
\* the file yields (r) goes to the end of the batch's sequences
AppendFindings(an, li, r) ==
    [an |-> an \o r.an, li |-> li \o r.li, item |-> r.item,
     caught |-> r.caught, raised |-> r.raised, stat_failed |-> r.stat_failed, ft |-> r.ft]

\* the step of process_next_file for one file, lines 1262-1346
StepFile(f, w, lib, stego, an, li) == AppendFindings(an, li, ProcessFile(f, w, lib, stego))

\* a handler that returns before the index is advanced
NextFileIndexUnlessCaught(i, caught) == IF caught THEN i ELSE i + 1

\* self.current_file_index += 1, line 1343, reached from every handler
NextFileIndex(i, caught) == i + 1

\* lines 1262-1346 for file f, r being the outcome of its step
FileDone(f, r) ==
    /\ anomalies' = r.an
    /\ logical_issues' = r.li
    /\ tree' = Append(tree, [name |-> f, item |-> r.item])
    /\ current_file_index' = NextFileIndex(current_file_index, r.caught)
    /\ status' = "Analyzing"
    /\ hist' = [hist EXCEPT !.last =
                  [file |-> f, index |-> current_file_index,
                   caught |-> r.caught, raised |-> r.raised,
                   stat_failed |-> r.stat_failed, ft |-> r.ft,
                   an0 |-> Len(anomalies), li0 |-> Len(logical_issues)]]
    /\ UNCHANGED << timer_active, controls_enabled, anomalies_btn, logical_issues_btn >>

NextFile(f) ==
    FileDone(f, StepFile(f, world[f], libs, stegano_checked, anomalies, logical_issues))

\* process_next_file, lines 1255-1351: one timeout of processing_timer
process_next_file ==
    /\ timer_active
    /\ IF current_file_index >= Len(file_paths)
       THEN /\ timer_active' = FALSE
            /\ finish_analysis
            /\ hist' = [hist EXCEPT !.prev = [valid |-> TRUE, paths |-> file_paths,
                                              stego |-> stegano_checked,
                                              an |-> anomalies, li |-> logical_issues]]
            /\ UNCHANGED << current_file_index, anomalies, logical_issues, tree >>
       ELSE NextFile(file_paths[current_file_index + 1])
    /\ UNCHANGED << libs, world, file_paths, file_path_map, stegano_checked, sig_in, sig_out,
                    date_in, date_out, gps_in, gps_out >>

\* a clear button that stays enabled during a batch
clear_results_any_time ==
    /\ file_paths' = << >>
    /\ file_path_map' = {}
    /\ clear_results_ui_only
    /\ status' = "Ready"
    /\ hist' = NoHist
    /\ UNCHANGED << libs, world, current_file_index, timer_active, controls_enabled,
                    stegano_checked, sig_in, sig_out, date_in, date_out, gps_in, gps_out >>

\* clear_results, lines 2152-2157
clear_results ==
    /\ controls_enabled
    /\ file_paths' = << >>
    /\ file_path_map' = {}
    /\ clear_results_ui_only
    /\ status' = "Ready"
    /\ hist' = NoHist
    /\ UNCHANGED << libs, world, current_file_index, timer_active, controls_enabled,
                    stegano_checked, sig_in, sig_out,
                    date_in, date_out, gps_in, gps_out >>

Next ==
    \/ toggle_stegano
    \/ \E files \in Lists(DOMAIN world) : select_files(files)
    \/ \E found \in Lists(DOMAIN world), fails \in BOOLEAN : select_folder(found, fails)
    \/ select_folder_cancel
    \/ start_analysis
    \/ process_next_file
    \/ clear_results

Spec == Init /\ [][Next]_vars
FileSpec == FileInit /\ [][Next]_vars

(***************************************************************************)
(* process_next_file, the outer handler, lines 1348-1351: an exception     *)
(* raised outside the two inner try blocks (in the fallback of             *)
(* update_preview before the file item is made, or in finish_analysis      *)
(* before the controls are enabled) stops the timer and shows a message.   *)
(***************************************************************************)
process_next_file_error ==
    /\ timer_active
    /\ timer_active' = FALSE
    /\ status' = "Error during processing"
    /\ UNCHANGED << libs, world, file_paths, current_file_index, anomalies, logical_issues,
                    tree, file_path_map, controls_enabled, stegano_checked, anomalies_btn,
                    logical_issues_btn, hist, sig_in, sig_out, date_in, date_out,
                    gps_in, gps_out >>

HaltNext == Next \/ process_next_file_error
HaltSpec == Init /\ [][HaltNext]_vars

(***************************************************************************)
(* check_file_signature_mismatch on its own: the inputs are an extension,  *)
(* the outcome of magic.from_file and whether python-magic is installed.   *)
(***************************************************************************)
SigExts == {".jpg", ".JPG", ".pdf", ".PDF", ".docx", ".exe", ".Exe", ".zip", ".png", ".sh",
            ".dll", ".txt"}
SigTypes == SUBSET {"PDF", "executable", "text"}
SigProbes ==
    { [ext |-> e, sniff |-> [raises |-> r, type |-> t], magic |-> m, done |-> FALSE] :
        e \in SigExts, r \in BOOLEAN, t \in SigTypes, m \in BOOLEAN }

SigInit ==
    /\ AppInit
    /\ libs = AllLibs
    /\ world = [n \in {"a"} |-> BaseFacts]
    /\ sig_in \in SigProbes
    /\ sig_out = None
    /\ date_in = NoDateProbe
    /\ date_out = NoParse
    /\ gps_in = NoGpsProbe
    /\ gps_out = NoGps

sig_probe ==
    /\ ~sig_in.done
    /\ sig_out' = check_file_signature_mismatch(sig_in.magic, sig_in.ext, sig_in.sniff)
    /\ sig_in' = [sig_in EXCEPT !.done = TRUE]
    /\ UNCHANGED << libs, world, file_paths, current_file_index, anomalies, logical_issues,
                    tree, file_path_map, timer_active, controls_enabled, stegano_checked,
                    anomalies_btn, logical_issues_btn, status, hist, date_in, date_out, gps_in, gps_out >>

SigNext == sig_probe
SigSpec == SigInit /\ [][SigNext]_vars

(***************************************************************************)
(* Calls of parse_pdf_date: the arguments are date strings written from    *)
(* their fields as a PDF producer writes them, strings without the prefix  *)
(* or cut short, and values that are not strings.                          *)
(***************************************************************************)
TwoDigits(n) == << ToString(n \div 10), ToString(n % 10) >>
FourDigits(n) == TwoDigits(n \div 100) \o TwoDigits(n % 100)

Zones ==
    { NoZone, [NoZone EXCEPT !.kind = "Z"], [NoZone EXCEPT !.kind = "z"],
      [kind |-> "offset", sign |-> "+", h |-> 5, m |-> 30],
      [kind |-> "offset", sign |-> "-", h |-> 8, m |-> 0],
      [kind |-> "offset", sign |-> "+", h |-> 23, m |-> 59],
      [kind |-> "offset", sign |-> "+", h |-> 24, m |-> 0],
      [kind |-> "open", sign |-> "+", h |-> 5, m |-> 30] }

ZoneText(z) ==
    CASE z.kind = "none" -> << >>
      [] z.kind \in {"Z", "z"} -> << z.kind >>
      [] z.kind = "offset" -> << z.sign >> \o TwoDigits(z.h) \o << "'" >> \o TwoDigits(z.m) \o << "'" >>
      [] OTHER -> << z.sign >> \o TwoDigits(z.h) \o << "'" >> \o TwoDigits(z.m)

DateText(p) ==
    LET digits == FourDigits(p.y) \o TwoDigits(p.mo) \o TwoDigits(p.d) \o TwoDigits(p.h)
                  \o TwoDigits(p.mi) \o TwoDigits(p.s)
    IN  CASE p.form = "full" -> << "D", ":" >> \o digits \o ZoneText(p.zone)
          [] p.form = "bare" -> digits \o ZoneText(p.zone)
          [] OTHER -> << "D", ":" >> \o SubSeq(digits, 1, 12)

DateParts ==
    [form : {"full", "bare", "short"}, y : {0, 2023, 2024}, mo : {0, 2, 12, 13},
     d : {0, 29, 30, 31, 32}, h : {0, 23, 24}, mi : {59, 60}, s : {59, 60}, zone : Zones]

DateProbes ==
    { [is_str |-> TRUE, text |-> DateText(p), parts |-> p, done |-> FALSE] : p \in DateParts }
    \cup { NoDateProbe }

DateInit ==
    /\ AppInit
    /\ libs = AllLibs
    /\ world = [n \in {"a"} |-> BaseFacts]
    /\ sig_in = NoProbe
    /\ sig_out = None
    /\ date_in \in DateProbes
    /\ date_out = NoParse
    /\ gps_in = NoGpsProbe
    /\ gps_out = NoGps

date_probe ==
    /\ ~date_in.done
    /\ date_out' = parse_pdf_date(date_in)
    /\ date_in' = [date_in EXCEPT !.done = TRUE]
    /\ UNCHANGED << libs, world, file_paths, current_file_index, anomalies, logical_issues,
                    tree, file_path_map, timer_active, controls_enabled, stegano_checked,
                    anomalies_btn, logical_issues_btn, status, hist, sig_in, sig_out,
                    gps_in, gps_out >>

DateNext == date_probe
DateSpec == DateInit /\ [][DateNext]_vars

(***************************************************************************)
(* Calls of _parse_gps_info on GPS directories as an image can carry them. *)
(***************************************************************************)
GpsProbes ==
    { [lat |-> la, lat_ref |-> lr, lon |-> lo, lon_ref |-> gr, done |-> FALSE] :
        la \in { << >>, << 45, 0 >> }
               \cup { << d, m, 0 >> : d \in {0, 89, 90, 91}, m \in {0, 59} },
        lr \in {None, "N", "S"},
        lo \in { << >>, << 45, 0 >> }
               \cup { << d, m, 0 >> : d \in {0, 179, 180, 181}, m \in {0, 59} },
        gr \in {None, "E", "W"} }

GpsInit ==
    /\ AppInit
    /\ libs = AllLibs
    /\ world = [n \in {"a"} |-> BaseFacts]
    /\ sig_in = NoProbe
    /\ sig_out = None
    /\ date_in = NoDateProbe
    /\ date_out = NoParse
    /\ gps_in \in GpsProbes
    /\ gps_out = NoGps

gps_probe ==
    /\ ~gps_in.done
    /\ gps_out' = parse_gps_info(gps_in)
    /\ gps_in' = [gps_in EXCEPT !.done = TRUE]
    /\ UNCHANGED << libs, world, file_paths, current_file_index, anomalies, logical_issues,
                    tree, file_path_map, timer_active, controls_enabled, stegano_checked,
                    anomalies_btn, logical_issues_btn, status, hist, sig_in, sig_out,
                    date_in, date_out >>

GpsNext == gps_probe
GpsSpec == GpsInit /\ [][GpsNext]_vars

(***************************************************************************)
(* Properties                                                              *)
(***************************************************************************)
IsPrefix(s, t) == Len(s) <= Len(t) /\ SubSeq(t, 1, Len(s)) = s
Count(s, Test(_)) == Cardinality({ i \in 1..Len(s) : Test(s[i]) })

\* a tick of the current batch has processed a file; what it appended
Ticked == hist.last.file /= None
LastAnomalies == SubSeq(anomalies, hist.last.an0 + 1, Len(anomalies))
LastIssues == SubSeq(logical_issues, hist.last.li0 + 1, Len(logical_issues))
LastItem == tree[Len(tree)].item

CatchAllKind == "Unexpected error during processing"
StatErrorKind == "Error reading file system stats"
ExtractorGroups == {"EXIF Metadata", "PDF Metadata", "DOCX Metadata", "Media Metadata"}
ExtractorErrorKinds ==
    {"File not found during EXIF processing", "Cannot identify image file",
     "Error processing image EXIF",
     "File not found during PDF processing",
     "Error reading PDF (likely corrupt or password protected)", "Error processing PDF",
     "File not found during DOCX processing", "Error processing DOCX - BadZipFile",
     "Error processing DOCX",
     "File not found during Media processing",
     "Error processing Media file (mutagen error)", "Error processing Media file"}

\* C1, safety half: the files processed so far are the first
\* current_file_index files of the list, each once and in list order, and a
\* finished batch has processed the whole list.
ProcessedInOrder ==
    /\ Running =>
         /\ file_paths /= << >>
         /\ current_file_index <= Len(file_paths)
         /\ Len(tree) = current_file_index
         /\ \A i \in 1..Len(tree) : tree[i].name = file_paths[i]
    /\ Finished =>
         /\ current_file_index = Len(file_paths)
         /\ Len(tree) = Len(file_paths)
         /\ \A i \in 1..Len(tree) : tree[i].name = file_paths[i]
         /\ controls_enabled

\* C1, one tick: a tick on a file advances the index by exactly 1 and leaves
\* the timer running, whatever failed for the file; the tick after the last
\* file stops the timer and finishes.
TickAdvances ==
    /\ (Running /\ current_file_index < Len(file_paths)) =>
         /\ current_file_index' = current_file_index + 1
         /\ timer_active'
         /\ Len(tree') = Len(tree) + 1
    /\ (Running /\ current_file_index >= Len(file_paths)) =>
         /\ ~timer_active'
         /\ Finished'
         /\ UNCHANGED << current_file_index, anomalies, logical_issues, tree >>

\* C1: for every non-empty list and every combination of per-file failures
\* the ticks process each file exactly once in list order, advancing the
\* index by 1 per file and leaving the timer running whatever failed, and
\* the tick after the last file stops the timer and finishes the batch.
C1_BatchRunsToFinished ==
    /\ []ProcessedInOrder
    /\ [][TickAdvances]_vars

\* a finished batch of at least two files whose first file hit the catch-all
\* handler and whose second file failed in os.stat and in its extractor
C1_Witness ==
    /\ Finished
    /\ Len(file_paths) >= 2
    /\ \E i \in 1..Len(anomalies) :
         anomalies[i].file = file_paths[1] /\ anomalies[i].kind = CatchAllKind
    /\ \E i \in 1..Len(anomalies) :
         anomalies[i].file = file_paths[2] /\ anomalies[i].kind = StatErrorKind
    /\ \E i \in 1..Len(anomalies) :
         anomalies[i].file = file_paths[2] /\ anomalies[i].kind \in ExtractorErrorKinds

\* C2 as stated: a file that reaches the catch-all handler contributes
\* nothing but the single catch-all Anomaly.
C2_AbandonedFileContributesOnlyCatchAll ==
    (Ticked /\ hist.last.caught) =>
        /\ LastAnomalies = << Bare(hist.last.file, CatchAllKind) >>
        /\ LastIssues = << >>

\* C2 amended: a file either completes without the catch-all handler (no
\* catch-all Anomaly, no 'Processing Error' node) or reaches it, and then the
\* handler appends exactly one catch-all Anomaly, as the file's last Anomaly,
\* and one 'Processing Error' node, as the record's last node; the findings of
\* the first try block (stat, signature, size) appended before stay.
C2_CatchAllAppendsOneAnomalyKeepingEarlier ==
    Ticked =>
        LET f == hist.last.file
            n == Len(LastAnomalies)
            m == Len(LastItem)
            first == StatBlock(f, world[f], libs)
            isCatch(x) == x.kind = CatchAllKind
            isNode(x) == x.k = "Processing Error"
        IN  /\ hist.last.caught =>
                 /\ n >= 1
                 /\ LastAnomalies[n] = Bare(f, CatchAllKind)
                 /\ Count(LastAnomalies, isCatch) = 1
                 /\ m >= 1
                 /\ LastItem[m].k = "Processing Error"
                 /\ Count(LastItem, isNode) = 1
                 /\ IsPrefix(first.an, LastAnomalies)
                 /\ IsPrefix(first.li, LastIssues)
            /\ ~hist.last.caught =>
                 /\ Count(LastAnomalies, isCatch) = 0
                 /\ Count(LastItem, isNode) = 0

\* a file that reached the catch-all handler after appending other findings
C2_Witness ==
    /\ Ticked
    /\ hist.last.caught
    /\ Len(LastAnomalies) >= 2
    /\ Len(LastIssues) >= 1

\* C3 as stated: a file whose extractor hit an internal exception contributes
\* exactly one Anomaly (and one Error node).
C3_CorruptFileContributesOneAnomaly ==
    (Ticked /\ hist.last.raised) => Len(LastAnomalies) = 1

\* C3 amended: when an extractor hits an internal exception the exception
\* does not escape it (the catch-all handler is not reached because of it),
\* its own metadata group gets exactly one 'Error' node and exactly one
\* extractor-error Anomaly naming the file is appended; the file's other
\* Anomalies (stat, signature, size, findings before the exception) stay.
C3_ExtractorFailsSoft ==
    (Ticked /\ hist.last.raised) =>
        LET f == hist.last.file
            isGroup(x) == x.k \in ExtractorGroups
            isError(x) == x.k = "Error"
            isErrAn(x) == x.kind \in ExtractorErrorKinds
        IN  /\ Count(LastItem, isGroup) = 1
            /\ \A i \in 1..Len(LastItem) :
                 isGroup(LastItem[i]) => Count(LastItem[i].ch, isError) = 1
            /\ Count(LastAnomalies, isErrAn) = 1
            /\ \A i \in 1..Len(LastAnomalies) :
                 isErrAn(LastAnomalies[i]) =>
                     LastAnomalies[i].file = f /\ LastAnomalies[i].pfx = "bare"
            /\ world[f].escape = "none" => ~hist.last.caught

\* a PDF whose extractor failed and which contributed a second Anomaly
C3_Witness ==
    /\ Ticked
    /\ hist.last.raised
    /\ hist.last.ft = "pdf"
    /\ ~hist.last.caught
    /\ Len(LastAnomalies) >= 2

\* the place of a finding in the order in which process_next_file calls the
\* detectors: stat and filesystem facts, signature, size, format extractor,
\* steganography, author review, catch-all handler
AnomalyStage(x) ==
    CASE x.kind \in {StatErrorKind, "Error processing file system stats"} -> 1
      [] \/ \E i \in 1..Len(red_flags) : x.kind = red_flags[i][3]
         \/ \E e \in SigExts : x.kind = GenericExecutable(e) -> 2
      [] x.kind \in {"EMPTY FILE", "SUSPICIOUSLY SMALL"} -> 3
      [] x.kind \in {"STEGANOGRAPHY (LSB): Possible hidden data detected",
                     "ENTROPY ANOMALY: High entropy detected"} -> 5
      [] x.kind = CatchAllKind -> 7
      [] OTHER -> 4
IssueStage(x) ==
    CASE x.kind \in {"Filesystem Time Issue: Modified before Created",
                     "Filesystem Time Issue: Accessed before Created",
                     "File size is 0 bytes (empty file)"} -> 1
      [] x.kind \in {"SUSPECT USER", "UNEXPECTED CREATOR", "SUSPICIOUS PRODUCER",
                     "CAMERA ID"} -> 6
      [] OTHER -> 4
Position(f) == CHOOSE i \in 1..Len(file_paths) : file_paths[i] = f

\* C4, order: the findings of the batch's files follow the list order and,
\* within a file, the order of the detector invocations.
DiscoveryOrder ==
    (Running \/ Finished) =>
        /\ \A p, q \in 1..Len(anomalies) :
             p < q =>
               /\ Position(anomalies[p].file) <= Position(anomalies[q].file)
               /\ anomalies[p].file = anomalies[q].file =>
                    AnomalyStage(anomalies[p]) <= AnomalyStage(anomalies[q])
        /\ \A p, q \in 1..Len(logical_issues) :
             p < q =>
               /\ Position(logical_issues[p].file) <= Position(logical_issues[q].file)
               /\ logical_issues[p].file = logical_issues[q].file =>
                    IssueStage(logical_issues[p]) <= IssueStage(logical_issues[q])

\* C4, one step: while a batch runs a step keeps the old contents of each
\* sequence as a prefix of the new contents.
AppendOnlyStep ==
    Running => /\ IsPrefix(anomalies, anomalies')
               /\ IsPrefix(logical_issues, logical_issues')

\* C4: while a batch is running anomalies and logical_issues are append-only,
\* so the findings of file i precede those of file j for i < j, and within a
\* file they appear in detector invocation order.
C4_AppendOnlyInDiscoveryOrder ==
    /\ []DiscoveryOrder
    /\ [][AppendOnlyStep]_vars

\* two files processed, both with anomalies, the last with several
C4_Witness ==
    /\ Running
    /\ current_file_index = 2
    /\ Ticked
    /\ hist.last.an0 >= 2
    /\ hist.last.li0 >= 1
    /\ Len(LastAnomalies) >= 2

\* C5, one step: the step that starts the timer leaves both sequences empty
\* and the index 0.
StartResets ==
    (~timer_active /\ timer_active') =>
        /\ anomalies' = << >>
        /\ logical_issues' = << >>
        /\ current_file_index' = 0
        /\ file_paths /= << >>

\* C5, scope: the findings of a running or finished batch name files of that
\* batch only, as many as the ticks of the batch appended.
BatchScoped ==
    /\ (Running \/ Finished) =>
         /\ \A i \in 1..Len(anomalies) :
              \E j \in 1..current_file_index : anomalies[i].file = file_paths[j]
         /\ \A i \in 1..Len(logical_issues) :
              \E j \in 1..current_file_index : logical_issues[i].file = file_paths[j]
    /\ (Running /\ current_file_index = 0) => (anomalies = << >> /\ logical_issues = << >>)

\* C5: when a batch enters Running both sequences are empty and the index is
\* 0 whatever earlier batches left, and the final sequences hold findings of
\* that batch's files only.
C5_BatchScopedReset ==
    /\ []BatchScoped
    /\ [][StartResets]_vars

\* a batch just started again after a finished batch that left findings
C5_Witness ==
    /\ Running
    /\ current_file_index = 0
    /\ anomalies = << >>
    /\ hist.prev.valid
    /\ hist.prev.an /= << >>
    /\ hist.prev.li /= << >>

\* C6, one step: start_analysis without files starts nothing and leaves the
\* findings, the index and the tree alone.
EmptyStartRefused ==
    (start_analysis /\ file_paths = << >>) =>
        /\ ~timer_active'
        /\ controls_enabled'
        /\ UNCHANGED << anomalies, logical_issues, current_file_index, tree >>

\* C6: start_analysis with an empty list does not enter Running, and Running
\* is reachable only with a non-empty list.
C6_NoRunWithoutFiles ==
    /\ [](Running => file_paths /= << >>)
    /\ [][EmptyStartRefused]_vars

\* start_analysis was refused (empty list) with results of an earlier batch
\* still shown
C6_Witness ==
    /\ status = "No files or folder selected to analyze."
    /\ file_paths = << >>
    /\ ~timer_active
    /\ controls_enabled
    /\ anomalies /= << >>
    /\ current_file_index > 0
    /\ tree /= << >>

\* what file f contributes when processed alone, by the file's facts and the
\* option only
Alone(f, stego) == ProcessFile(f, world[f], libs, stego)

\* C7: what a tick appends for a file, and the record it builds, is what the
\* file yields on its own under the batch's steganography option, whatever
\* its position and whatever the other files of the batch.
C7_ContributionIndependentOfBatch ==
    (Running /\ Ticked) =>
        LET own == Alone(hist.last.file, stegano_checked)
        IN  /\ LastAnomalies = own.an
            /\ LastIssues = own.li
            /\ LastItem = own.item

\* a file with findings processed second, after a file with findings
C7_Witness ==
    /\ Running
    /\ Ticked
    /\ hist.last.index = 1
    /\ hist.last.an0 >= 1
    /\ Len(LastAnomalies) >= 2
    /\ Len(LastIssues) >= 1

\* the second run of a list has processed its last file, with the option
\* of the first run
SecondRunDone ==
    /\ Running
    /\ current_file_index = Len(file_paths)
    /\ hist.prev.valid
    /\ hist.prev.paths = file_paths
    /\ hist.prev.stego = stegano_checked

FsTimeIssueKinds ==
    {"Filesystem Time Issue: Modified before Created",
     "Filesystem Time Issue: Accessed before Created"}
FormatVsFsKinds ==
    {"EXIF Time Issue: DateTimeOriginal after Filesystem Modified",
     "EXIF Note: DateTimeOriginal before Filesystem Created",
     "PDF Time Issue: CreationDate after Filesystem Modified",
     "DOCX Time Issue: Created after Filesystem Modified"}
GroupOf(ft) ==
    CASE ft = "image" -> "EXIF Metadata"
      [] ft = "pdf" -> "PDF Metadata"
      [] ft = "docx" -> "DOCX Metadata"
      [] OTHER -> "Media Metadata"

\* C9: when os.stat fails the record has one 'File System Info' group with
\* exactly one entry, an Error; the extractor chosen by the extension still
\* runs; no filesystem-time issue and no format-vs-filesystem time issue is
\* appended for the file.
C9_StatFailureIsolated ==
    (Ticked /\ hist.last.stat_failed) =>
        LET f == hist.last.file
            isFs(x) == x.k = "File System Info"
            isGroup(x) == x.k = GroupOf(hist.last.ft)
        IN  /\ Count(LastItem, isFs) = 1
            /\ \A i \in 1..Len(LastItem) :
                 isFs(LastItem[i]) =>
                     Len(LastItem[i].ch) = 1 /\ LastItem[i].ch[1].k = "Error"
            /\ (hist.last.ft /= None /\ world[f].escape /= "pre") =>
                 Count(LastItem, isGroup) = 1
            /\ \A i \in 1..Len(LastIssues) :
                 LastIssues[i].kind \notin FsTimeIssueKinds \cup FormatVsFsKinds

\* os.stat failed for a PDF whose CreationDate is more than a minute after
\* the file's modification time; its extractor ran
C9_Witness ==
    /\ Ticked
    /\ hist.last.stat_failed
    /\ hist.last.ft = "pdf"
    /\ LET w == world[hist.last.file]
       IN  /\ w.pdf_open = "ok"
           /\ w.pdf_meta = "full"
           /\ w.cdate.some
           /\ w.cdate.wall > w.mod + OneMinute
    /\ \E i \in 1..Len(LastItem) : LastItem[i].k = "PDF Metadata"

\* C10: check_file_signature_mismatch returns one warning at most, that of
\* the first matching rule of the table; .jpg with a type containing 'PDF'
\* gets the fake-image warning even when the type contains 'executable'; the
\* generic warning is returned only when no rule matched and the extension
\* is not one of .exe .dll .bat .ps1 .sh.
C10_FirstMatchingRuleWins ==
    (sig_in.done /\ sig_in.magic /\ ~sig_in.sniff.raises) =>
        LET ext == Lower(sig_in.ext)
            t == sig_in.sniff.type
            matched == { i \in 1..Len(red_flags) :
                           red_flags[i][1] = ext /\ red_flags[i][2] \in t }
        IN  /\ \A i \in matched :
                 (\A j \in matched : i <= j) => sig_out = red_flags[i][3]
            /\ (ext = ".jpg" /\ "PDF" \in t) =>
                 sig_out = "FAKE IMAGE: This is actually a PDF document"
            /\ (\E e \in SigExts : sig_out = GenericExecutable(e)) =>
                 /\ matched = {}
                 /\ ext \notin {".exe", ".dll", ".bat", ".ps1", ".sh"}
                 /\ "executable" \in t
            /\ (matched = {} /\ "executable" \notin t) => sig_out = None

\* photo.JPG sniffed as both PDF and executable got the fake-image warning
C10_Witness ==
    /\ sig_in.done
    /\ sig_in.magic
    /\ ~sig_in.sniff.raises
    /\ sig_in.ext = ".JPG"
    /\ {"PDF", "executable"} \subseteq sig_in.sniff.type
    /\ sig_out = "FAKE IMAGE: This is actually a PDF document"

\* the values of the leaves of a record, at the top level and inside groups
LeafValues(item) ==
    { item[i].v : i \in 1..Len(item) }
    \cup UNION { { item[i].ch[j].v : j \in 1..Len(item[i].ch) } : i \in 1..Len(item) }

UnavailableTexts ==
    {"Stegano library not found.", "Unsupported file type or required library missing."}

\* C11: with magic or stegano absent a file is processed without an
\* exception and without a Finding caused by the absence, and its record
\* holds a status line saying that a capability is unavailable.
C11_MissingLibraryStatusLine ==
    (Running /\ Ticked /\ world[hist.last.file].escape = "none") =>
        LET w == world[hist.last.file]
            usesLsb == stegano_checked /\ hist.last.ft = "image"
        IN  /\ ~hist.last.caught
            /\ "magic" \notin libs =>
                 /\ \A i \in 1..Len(LastAnomalies) : AnomalyStage(LastAnomalies[i]) /= 2
                 /\ LeafValues(LastItem) \cap UnavailableTexts /= {}
            /\ ("stegano" \notin libs /\ usesLsb) =>
                 /\ \A i \in 1..Len(LastAnomalies) :
                      LastAnomalies[i].kind /= "STEGANOGRAPHY (LSB): Possible hidden data detected"
                 /\ "Stegano library not found." \in LeafValues(LastItem)


HighEntropyKind == "ENTROPY ANOMALY: High entropy detected"

\* the entropy of the last file was computed: it went through the image
\* branch with the steganography option on
EntropyComputed ==
    /\ Running /\ Ticked
    /\ stegano_checked /\ hist.last.ft = "image"
    /\ world[hist.last.file].escape /= "pre"

\* C12: a computed entropy above 7.8 appends exactly one High Entropy
\* anomaly carrying the value with four decimals, an entropy of 7.8 or less
\* appends none, and no file ever gets more than one.
C12_OneHighEntropyAnomalyAboveThreshold ==
    (Running /\ Ticked) =>
        LET w == world[hist.last.file]
            e == IF w.read_fail THEN 0 ELSE w.entropy
            isHigh(a) == a.kind = HighEntropyKind
        IN  /\ Count(LastAnomalies, isHigh) <= 1
            /\ EntropyComputed =>
                 IF e > EntropyThreshold
                 THEN /\ Count(LastAnomalies, isHigh) = 1
                      /\ \A i \in 1..Len(LastAnomalies) :
                           isHigh(LastAnomalies[i]) =>
                               /\ LastAnomalies[i].arg = << format_4f(e) >>
                               /\ (e = 780004 => LastAnomalies[i].arg = << "7.8000" >>)
                               /\ (e = 780010 => LastAnomalies[i].arg = << "7.8001" >>)
                 ELSE Count(LastAnomalies, isHigh) = 0

C12_Witness ==
    /\ EntropyComputed
    /\ world[hist.last.file].entropy = 780004
    /\ \E i \in 1..Len(LastAnomalies) :
         /\ LastAnomalies[i].kind = HighEntropyKind
         /\ LastAnomalies[i].arg = << "7.8000" >>


MissingTagsKind == "Missing common EXIF tags"

\* the EXIF extractor opened the last file and read its EXIF data
ExifRead ==
    /\ Running /\ Ticked
    /\ hist.last.ft = "image"
    /\ world[hist.last.file].escape /= "pre"
    /\ world[hist.last.file].img_open = "ok"

\* the required tags the EXIF data of the last file lacks, in the order of
\* the list of line 1759
AbsentTags ==
    SelectSeq(<< "DateTimeOriginal", "Make", "Model" >>,
              LAMBDA t : t \notin world[hist.last.file].tags)

\* C13 as stated: every image whose EXIF data lacks a required tag gets
\* exactly one missing-tags anomaly listing each absent tag once, and an
\* image with all three gets none.
C13_MissingTagsAnomalyForEveryImage ==
    ExifRead =>
        LET isMissing(a) == a.kind = MissingTagsKind
        IN  IF AbsentTags /= << >>
            THEN /\ Count(LastAnomalies, isMissing) = 1
                 /\ \A i \in 1..Len(LastAnomalies) :
                      isMissing(LastAnomalies[i]) => LastAnomalies[i].arg = AbsentTags
            ELSE Count(LastAnomalies, isMissing) = 0

\* C13: an image whose EXIF data holds at least one tag and lacks a required
\* tag gets exactly one missing-tags anomaly listing each absent tag once;
\* with all three present, or with no EXIF data at all, it gets none (an
\* image without EXIF data gets the 'No EXIF data found' status instead).
C13_MissingTagsAnomalyWhenExifPresent ==
    ExifRead =>
        LET w == world[hist.last.file]
            isMissing(a) == a.kind = MissingTagsKind
        IN  IF w.tags /= {} /\ AbsentTags /= << >>
            THEN /\ Count(LastAnomalies, isMissing) = 1
                 /\ \A i \in 1..Len(LastAnomalies) :
                      isMissing(LastAnomalies[i]) => LastAnomalies[i].arg = AbsentTags
            ELSE /\ Count(LastAnomalies, isMissing) = 0
                 /\ w.tags = {} => "No EXIF data found." \in LeafValues(LastItem)

C13_Witness ==
    /\ ExifRead
    /\ world[hist.last.file].tags = {"Make"}
    /\ \E i \in 1..Len(LastAnomalies) :
         /\ LastAnomalies[i].kind = MissingTagsKind
         /\ LastAnomalies[i].arg = << "DateTimeOriginal", "Model" >>


MixedPair(a, b) == a.some /\ b.some /\ a.aware /= b.aware

C16_ExportPreservesRecord ==
    (Running /\ Ticked) => collect_metadata_dict(LastItem) = LastItem


RECURSIVE Flatten(_)
Flatten(s) == IF s = << >> THEN << >> ELSE Head(s) \o Flatten(Tail(s))

\* what the files of the tree yield when each is processed from start to
\* end with the steganography option st
WholeFiles(st) ==
    [i \in 1..Len(tree) |-> ProcessFile(tree[i].name, world[tree[i].name], libs, st)]

CompleteRecords(whole) ==
    /\ \A i \in 1..Len(tree) : tree[i].item = whole[i].item
    /\ anomalies = Flatten([i \in 1..Len(tree) |-> whole[i].an])
    /\ logical_issues = Flatten([i \in 1..Len(tree) |-> whole[i].li])

\* C17: control is yielded only between files: in every state another
\* handler can observe, during a run or after it, each record of the tree is
\* that of a file processed to completion, the two sequences hold exactly the
\* findings of those files, and during a run the files done so far are those
\* before the current index.
C17_YieldOnlyAtFileBoundaries ==
    /\ \E st \in BOOLEAN : CompleteRecords(WholeFiles(st))
    /\ Running =>
         /\ Len(tree) = current_file_index
         /\ \A i \in 1..Len(tree) : tree[i].name = file_paths[i]
         /\ CompleteRecords(WholeFiles(stegano_checked))

C17_Witness ==
    /\ Running
    /\ Len(file_paths) = 2
    /\ current_file_index = 1
    /\ Len(tree) = 1
    /\ anomalies /= << >>
    /\ logical_issues /= << >>


\* C18 as stated: every string the last tick appended starts with the base
\* name of the file of that tick.
C18_FindingsStartWithBaseName ==
    (Running /\ Ticked) =>
        /\ \A i \in 1..Len(LastAnomalies) :
             LastAnomalies[i].file = hist.last.file /\ LastAnomalies[i].pfx = "bare"
        /\ \A i \in 1..Len(LastIssues) :
             LastIssues[i].file = hist.last.file /\ LastIssues[i].pfx = "bare"

\* C18: every string appended to anomalies or logical_issues during a tick
\* names the file of that tick and no other file, in one of two forms: the
\* base name followed by a colon, or the word File followed by the base name
\* in quotes.
C18_FindingsNameTheirFile ==
    (Running /\ Ticked) =>
        /\ \A i \in 1..Len(LastAnomalies) :
             /\ LastAnomalies[i].file = hist.last.file
             /\ LastAnomalies[i].pfx \in {"bare", "quoted"}
        /\ \A i \in 1..Len(LastIssues) :
             /\ LastIssues[i].file = hist.last.file
             /\ LastIssues[i].pfx \in {"bare", "quoted"}

C18_Witness ==
    /\ Running /\ Ticked
    /\ hist.last.index = 1
    /\ hist.last.file /= file_paths[1]
    /\ \E i \in 1..Len(LastAnomalies) : LastAnomalies[i].pfx = "bare"
    /\ \E i \in 1..Len(LastIssues) : LastIssues[i].pfx = "quoted"


UnsupportedStatus == Leaf("Status", "Unsupported file type or required library missing.")

\* the last tick ran the dispatch on the extension to its end
Dispatched == Running /\ Ticked /\ world[hist.last.file].escape /= "pre"

\* C19 as stated: a file for which no extractor was selected (extension
\* without extractor, or library missing), and which so has no metadata
\* group besides File System Info, gets exactly one Unsupported status
\* entry; a file handled by an extractor gets none.
C19_UnsupportedStatusForEveryUnhandledFile ==
    Dispatched =>
        LET isStatus(n) == n = UnsupportedStatus
        IN  IF hist.last.ft = None
            THEN Count(LastItem, isStatus) = 1
            ELSE Count(LastItem, isStatus) = 0

\* C19: a file for which no extractor was selected gets exactly one
\* Unsupported status entry when its stat succeeded and its record holds no
\* signature-mismatch or size warning, and none otherwise; a file handled by
\* an extractor gets none.
C19_UnsupportedStatusOnlyOnBareRecord ==
    Dispatched =>
        LET isStatus(n) == n = UnsupportedStatus
            isWarning(n) == n.k \in {"SIGNATURE MISMATCH", "SIZE WARNING"}
        IN  IF /\ hist.last.ft = None
               /\ ~hist.last.stat_failed
               /\ Count(LastItem, isWarning) = 0
            THEN Count(LastItem, isStatus) = 1
            ELSE Count(LastItem, isStatus) = 0

C19_Witness ==
    /\ Dispatched
    /\ hist.last.ft = None
    /\ Lower(world[hist.last.file].ext) = ".pdf"
    /\ "PyPDF2" \notin libs
    /\ LastItem[Len(LastItem)] = UnsupportedStatus


\* the keys of the nodes of a record, at the top level and inside groups
NodeKeys(item) ==
    { item[i].k : i \in 1..Len(item) }
    \cup UNION { { item[i].ch[j].k : j \in 1..Len(item[i].ch) } : i \in 1..Len(item) }

\* C20: when lsb.reveal raises for a PNG or BMP file the record gets an
\* 'LSB Detection Error' node and the file one anomaly describing the
\* failure; the failure is reported neither as possible hidden data nor as
\* 'no LSB data found'.
C20_LsbFailureReportedAsError ==
    (/\ Running /\ Ticked
     /\ stegano_checked /\ hist.last.ft = "image" /\ "stegano" \in libs
     /\ world[hist.last.file].escape /= "pre"
     /\ Lower(world[hist.last.file].ext) \in {".png", ".bmp"}
     /\ world[hist.last.file].lsb_out = "raises") =>
        LET isLsbError(a) == a.kind = "Error checking LSB steganography"
            isHidden(a) == a.kind = "STEGANOGRAPHY (LSB): Possible hidden data detected"
        IN  /\ "LSB Detection Error" \in NodeKeys(LastItem)
            /\ Count(LastAnomalies, isLsbError) = 1
            /\ Count(LastAnomalies, isHidden) = 0
            /\ "No easily extractable LSB data found." \notin LeafValues(LastItem)


\* C21: when the bytes of an image cannot be read for the entropy, the
\* record gets an 'Entropy Calculation Error' field and the file one anomaly,
\* no entropy value and no 'within expected range' status are reported, and
\* the LSB check of the file has still left its line.
C21_EntropyFailureReportedAsError ==
    (EntropyComputed /\ world[hist.last.file].read_fail) =>
        LET isEntropyError(a) ==
                a.kind \in {"Error calculating entropy",
                            "File not found during entropy calculation"}
        IN  /\ "Entropy Calculation Error" \in NodeKeys(LastItem)
            /\ Count(LastAnomalies, isEntropyError) = 1
            /\ "Entropy" \notin NodeKeys(LastItem)
            /\ "Entropy within expected range." \notin LeafValues(LastItem)
            /\ {"LSB Detection", "WARN LSB Detection"} \cap NodeKeys(LastItem) /= {}


\* C22: a zero-byte file whose stat succeeds gets the 'File size is 0 bytes'
\* issue and the 'EMPTY FILE' anomaly, each exactly once.
C22_EmptyFileGetsBothFindings ==
    (/\ Running /\ Ticked
     /\ world[hist.last.file].stat = "ok"
     /\ world[hist.last.file].size = 0) =>
        LET isZero(a) == a.kind = "File size is 0 bytes (empty file)"
            isEmpty(a) == a.kind = "EMPTY FILE"
        IN  /\ Count(LastIssues, isZero) = 1
            /\ Count(LastAnomalies, isEmpty) = 1


\* C23: for every 'Last Modified By' value process_docx appends the admin
\* anomaly when the value contains 'admin' and the generic-account issue when
\* it contains 'temp' or 'user', also for a value that contains both.
C23_AdminAndGenericBothReported ==
    (/\ Running /\ Ticked
     /\ hist.last.ft = "docx"
     /\ world[hist.last.file].escape /= "pre"
     /\ world[hist.last.file].doc_open = "ok"
     /\ world[hist.last.file].lmb /= None) =>
        LET lmb == world[hist.last.file].lmb
            isAdmin(a) == a.kind = "Modified by admin account"
            isGeneric(a) == a.kind = "Modified by generic account"
        IN  /\ Count(LastAnomalies, isAdmin)
                 = (IF lmb \in {"admin", "Administrator user"} THEN 1 ELSE 0)
            /\ Count(LastIssues, isGeneric)
                 = (IF lmb \in {"temp", "user", "Administrator user"} THEN 1 ELSE 0)


\* C24: _parse_gps_info emits a position only for a latitude between -90 and
\* 90 degrees and a longitude between -180 and 180 degrees; input that
\* converts outside these ranges yields no position and is not clamped.
C24_PositionOnlyInRange ==
    (gps_in.done /\ gps_out.position) =>
        /\ gps_out.lat >= 0 - 90 * 3600 /\ gps_out.lat <= 90 * 3600
        /\ gps_out.lon >= 0 - 180 * 3600 /\ gps_out.lon <= 180 * 3600


\* C25: add_basic_file_info appends the Modified time issue exactly when
\* modified < created - 2 s and, independently, the Accessed one exactly when
\* accessed < created - 2 s; a gap of 2 s or less appends none; the issue is
\* only a finding: no anomaly and no Error node come with it and the
\* extractor of the file still runs.
C25_FsTimeIssueBeyondTolerance ==
    (/\ Running /\ Ticked
     /\ world[hist.last.file].stat = "ok"
     /\ ~world[hist.last.file].fs_exc) =>
        LET w == world[hist.last.file]
            isMod(a) == a.kind = "Filesystem Time Issue: Modified before Created"
            isAcc(a) == a.kind = "Filesystem Time Issue: Accessed before Created"
            isStatError(a) == a.kind \in {"Error processing file system stats",
                                          "Error reading file system stats"}
            isExtractorGroup(n) == n.k \in ExtractorGroups
        IN  /\ Count(LastIssues, isMod) = (IF w.mod + 2 < w.cre THEN 1 ELSE 0)
            /\ Count(LastIssues, isAcc) = (IF w.acc + 2 < w.cre THEN 1 ELSE 0)
            /\ Count(LastAnomalies, isStatError) = 0
            /\ \A j \in 1..Len(LastItem[1].ch) : LastItem[1].ch[j].k /= "Error"
            /\ (hist.last.ft /= None /\ w.escape /= "pre") =>
                 Count(LastItem, isExtractorGroup) = 1

C25_Witness ==
    /\ Running /\ Ticked
    /\ world[hist.last.file].stat = "ok" /\ ~world[hist.last.file].fs_exc
    /\ world[hist.last.file].cre = 103
    /\ world[hist.last.file].mod = 100
    /\ world[hist.last.file].acc = 103
    /\ hist.last.ft = "image"
    /\ Len(LastIssues) >= 1
    /\ LastIssues[1].kind = "Filesystem Time Issue: Modified before Created"
    /\ \A i \in 1..Len(LastIssues) :
         LastIssues[i].kind /= "Filesystem Time Issue: Accessed before Created"


\* C26: when reading the directory fails during select_folder, the file list
\* collected before the call and the file_path_map derived from it are left
\* as they were.
C26_FailedFolderReadKeepsFileList ==
    [][ (\E found \in Lists(DOMAIN world) : select_folder(found, TRUE)) =>
            (file_paths' = file_paths /\ file_path_map' = file_path_map) ]_vars


\* C27: whenever a batch has left Running, through finish_analysis or
\* through the outer handler of process_next_file, the controls that
\* start_analysis disabled are enabled again.
C27_ControlsEnabledWhenNotRunning ==
    ~Running => controls_enabled


\* C28: after the extractor of a supported file has run, each author warning
\* its extracted fields call for (DOCX 'Last Modified By' containing 'admin',
\* PDF Creator containing 'photoshop', PDF Producer containing 'crack') is
\* appended to logical_issues under the bare file name and added to the
\* record as an 'AUTHOR WARNING' node.
C28_AuthorWarningsReported ==
    (Running /\ Ticked /\ world[hist.last.file].escape = "none" /\ ~hist.last.raised) =>
        LET w == world[hist.last.file]
            expected ==
                CASE hist.last.ft = "docx" ->
                       IF w.lmb \in {"admin", "Administrator user"}
                       THEN {"SUSPECT USER"} ELSE {}
                  [] hist.last.ft = "pdf" /\ w.pdf_meta = "full" ->
                       (IF w.creator = "photoshop" THEN {"UNEXPECTED CREATOR"} ELSE {})
                       \cup (IF w.producer = "crack" THEN {"SUSPICIOUS PRODUCER"} ELSE {})
                  [] OTHER -> {}
        IN  \A k \in expected :
                /\ \E i \in 1..Len(LastIssues) :
                     LastIssues[i].kind = k /\ LastIssues[i].pfx = "bare"
                /\ \E i \in 1..Len(LastItem) :
                     LastItem[i].k = "AUTHOR WARNING" /\ LastItem[i].v = k


RunningBounds ==
    Running =>
        /\ file_paths /= << >>
        /\ current_file_index >= 0
        /\ current_file_index <= Len(file_paths)
        /\ ~controls_enabled

\* a step taken while a batch is running keeps the file list, and keeps the
\* batch going forward: the index never goes back and the sequences only grow
RunningStepKeepsBatch ==
    Running =>
        /\ file_paths' = file_paths
        /\ current_file_index' >= current_file_index
        /\ IsPrefix(anomalies, anomalies')
        /\ IsPrefix(logical_issues, logical_issues')

\* C29: while a batch is running file_paths is non-empty and unchanged and
\* the index stays between 0 and its length; no user action changes the
\* list, restarts the batch or resets the findings before the batch ends.
C29_RunningBatchUndisturbed ==
    /\ []RunningBounds
    /\ [][RunningStepKeepsBatch]_vars

C29_Witness ==
    /\ Running
    /\ Len(file_paths) = 2
    /\ current_file_index = Len(file_paths)
    /\ Len(tree) = 2
    /\ anomalies /= << >>
    /\ ~controls_enabled


ButtonMatches(btn, findings) ==
    /\ btn.enabled => (findings /= << >> /\ ~Running /\ btn.count = Len(findings))
    /\ Finished => (btn.enabled <=> findings /= << >>)

\* C30: in every reachable state each of the two buttons is enabled only
\* if its sequence is non-empty and no batch is running, an enabled button
\* shows the length of its sequence, and at Finished a button is enabled
\* exactly when its sequence is non-empty.
C30_ButtonsFollowFindings ==
    /\ ButtonMatches(anomalies_btn, anomalies)
    /\ ButtonMatches(logical_issues_btn, logical_issues)

C30_Witness ==
    /\ Finished
    /\ anomalies_btn.enabled
    /\ anomalies_btn.count = Len(anomalies)
    /\ ~logical_issues_btn.enabled
    /\ logical_issues = << >>

====
